---- MODULE Spec2Model ----
(***************************************************************************)
(* Caption timeline engine of the subtitle editor: the document, the       *)
(* linear undo/redo history over it, and the asynchronous generation,      *)
(* translation, load and save tasks that land on the same event loop.      *)
(*                                                                         *)
(* src/App.tsx holds two revisions of the App component.  rev = "r1" is    *)
(* the component of lines 43-620 (addToHistory / undo / redo), rev = "r2"  *)
(* the component of lines 660-1233 (pushToHistory / handleUndo /           *)
(* handleRedo).  A behaviour runs one of them from start to end.           *)
(*                                                                         *)
(* A handler of a React function component reads the state of the render   *)
(* it was created in.  A synchronous handler runs on the current render;   *)
(* the continuation of an async handler (after its await) still reads the  *)
(* history, historyIndex, subtitles and currentUser of the render in which *)
(* the handler was started.  A request in flight therefore carries these   *)
(* captured values.                                                        *)
(***************************************************************************)
EXTENDS Integers, Sequences, FiniteSets, TLC

VARIABLES rev, role, currentUser, mediaFile, subtitles, history,
          historyIndex, status, pending, loads, saveQueue, saved,
          currentTime, video, isSeekingRef, pc

vars == <<rev, role, currentUser, mediaFile, subtitles, history,
          historyIndex, status, pending, loads, saveQueue, saved,
          currentTime, video, isSeekingRef, pc>>

-----------------------------------------------------------------------------
(* Bounds of the model *)

MaxHist == 2
MaxInFlight == 1
MaxTime == 50
MaxSaves == 2
MaxClock == 20
MaxEvents == 4
MaxText == 5
MaxBlocks == 3
MaxSamples == 2

(* Program constants *)

HistoryLimit == 50
SyncStepR1 == 50
SyncStepSmallR2 == 100
SyncStepLargeR2 == 500
SeekTolerance == 200
KeyStep == 2000
SampleRate == 16000

\* A time is a whole number of ticks, TicksPerMs ticks to the millisecond, so
\* that a time between two milliseconds exists and never lies half-way.
TicksPerMs == 3
Ms(n) == n * TicksPerMs

Revs == {"r1", "r2"}
Users == {"u1"}
NoUser == "none"
Roles == {"user", "admin"}
EditTexts == {"b"}
TimeFields == {"startTime", "endTime"}
TimeInputs == {0}
GeneratedSizes == {0, 1}

-----------------------------------------------------------------------------
(* Documents *)

NoText == <<>>

Subtitle(id, s, e, t, o) ==
  [id |-> id, startTime |-> s, endTime |-> e, text |-> t, originalText |-> o]

\* The media element of VideoPlayer (videoRef.current, mounted while there is
\* a media URL) when it has just been given its source: position 0 and no
\* event waiting to be dispatched
FreshVideo == [currentTime |-> 0, events |-> <<>>]

\* What a read of history[i] gives when i is no position of the array.
Undefined == <<Subtitle(-1, 0, 0, "undefined", NoText)>>

Max(a, b) == IF a >= b THEN a ELSE b
Min(a, b) == IF a <= b THEN a ELSE b

\* history[i] of a JavaScript array (0-based)
At(h, i) == IF i >= 0 /\ i < Len(h) THEN h[i + 1] ELSE Undefined

\* Array.prototype.slice(0, n)
Slice0(h, n) == SubSeq(h, 1, Min(Max(n, 0), Len(h)))

\* A removal by position, splice(findIndex(id), 1): without the identifier in
\* the document the position is -1 and the last event goes
SpliceOut(subs, id) ==
  IF \E j \in 1..Len(subs) : subs[j].id = id
  THEN LET p == CHOOSE j \in 1..Len(subs) :
                  subs[j].id = id /\ \A k \in 1..(j - 1) : subs[k].id # id
       IN  SubSeq(subs, 1, p - 1) \o SubSeq(subs, p + 1, Len(subs))
  ELSE SubSeq(subs, 1, Len(subs) - 1)

\* Array.prototype.filter / map over a document
RECURSIVE FilterOut(_, _)
FilterOut(subs, id) ==
  IF subs = <<>> THEN <<>>
  ELSE IF Head(subs).id = id THEN FilterOut(Tail(subs), id)
       ELSE <<Head(subs)>> \o FilterOut(Tail(subs), id)

\* JSON.stringify(a) === JSON.stringify(b): JSON.stringify(undefined) is no
\* string and equals no serialised array.
JSONEqual(a, b) == a # Undefined /\ b # Undefined /\ a = b

-----------------------------------------------------------------------------
(* Generated and translated documents *)

\* A generation whose identifiers leave the index out: `auto-${Date.now()}`
GeneratedSubtitlesStamped(k, n) ==
  [j \in 1..n |-> Subtitle(10 * k + 1, Ms(50 * (j - 1)), Ms(50 * j), "a", NoText)]

\* generateSubtitlesFromMedia maps item index -> event; the identifier is
\* `auto-${index}-${Date.now()}`: k stands for the value of Date.now().
GeneratedSubtitles(k, n) ==
  [j \in 1..n |-> Subtitle(10 * k + j, Ms(50 * (j - 1)), Ms(50 * j), "a", NoText)]

\* A string that is falsy in `x || y`: undefined and the empty string
Falsy(x) == x = NoText \/ x = <<"">>

\* translateSubtitlesWithGemini after the response has been parsed:
\* translationMap is the Map of id -> translatedText built from the response
\* (a function whose domain is the identifiers the response names), and
\* translationMap.get(id) is undefined for an identifier outside it.
TranslateWith(subs, translationMap) ==
  [j \in 1..Len(subs) |->
     LET got == IF subs[j].id \in DOMAIN translationMap
                THEN <<translationMap[subs[j].id]>> ELSE NoText
     IN  [subs[j] EXCEPT
            !.originalText = IF Falsy(subs[j].originalText)
                             THEN <<subs[j].text>> ELSE subs[j].originalText,
            !.text = IF Falsy(got) THEN subs[j].text ELSE got[1]]]

\* A response that names the identifiers ids, each with the translated text "t"
Named(ids) == [id \in ids |-> "t"]

TranslatedSubtitles(subs, ids) == TranslateWith(subs, Named(ids))

Ids(subs) == {subs[j].id : j \in 1..Len(subs)}

\* A project record left in localStorage by an earlier page session
StoredSubtitles == GeneratedSubtitles(0, 1)

-----------------------------------------------------------------------------
(* History: the pure part of addToHistory (r1) and pushToHistory (r2) *)

\* A commit that keeps the redo entries: push without the slice
AddToHistoryListKeepsRedo(h, i, newSubtitles) == Append(h, newSubtitles)

\* r1, addToHistory: history.slice(0, historyIndex + 1) then push
AddToHistoryList(h, i, newSubtitles) == Append(Slice0(h, i + 1), newSubtitles)

\* r2, pushToHistory: the duplicate test
IsDuplicate(h, i, newSubtitles) == i >= 0 /\ JSONEqual(At(h, i), newSubtitles)

\* r2, pushToHistory: slice, push, shift when longer than the limit
PushToHistoryList(h, i, newSubtitles) ==
  LET newHistory == Append(Slice0(h, i + 1), newSubtitles)
  IN  IF Len(newHistory) > HistoryLimit THEN Tail(newHistory) ELSE newHistory

\* mockBackend.saveUserWork(userId, subtitles): the write lands after a delay
SaveUserWork(user, subs) ==
  saveQueue' = IF user # NoUser
               THEN Append(saveQueue, [userId |-> user, subtitles |-> subs])
               ELSE saveQueue

\* r1 addToHistory as run by a handler that captured history h, index i and
\* user u.  The caller sets subtitles.
addToHistory(h, i, u, newSubtitles) ==
  /\ history' = AddToHistoryList(h, i, newSubtitles)
  /\ historyIndex' = Len(AddToHistoryList(h, i, newSubtitles)) - 1
  /\ SaveUserWork(u, newSubtitles)

\* r2 pushToHistory as run by a handler that captured history h, index i and
\* user u; shown is what the handler has set subtitles to before the call.
pushToHistory(h, i, u, shown, newSubtitles) ==
  IF IsDuplicate(h, i, newSubtitles)
  THEN /\ subtitles' = shown
       /\ UNCHANGED <<history, historyIndex, saveQueue>>
  ELSE /\ history' = PushToHistoryList(h, i, newSubtitles)
       /\ historyIndex' = Len(PushToHistoryList(h, i, newSubtitles)) - 1
       /\ subtitles' = newSubtitles
       /\ SaveUserWork(u, newSubtitles)

-----------------------------------------------------------------------------
(* Tasks in flight *)

\* What the continuation of an async handler reads of the render it was
\* started in: history only through history.slice(0, historyIndex + 1) and
\* history[historyIndex], which the entries up to historyIndex determine.
Request(kind, h, i, subs, u) ==
  [kind |-> kind, history |-> Slice0(h, i + 1), historyIndex |-> i,
   subtitles |-> subs, user |-> u]

-----------------------------------------------------------------------------
(* Initial state: the component is mounted, nobody is logged in *)

\* useState(0) for currentTime, useRef(false) for isSeekingRef
Stopped == currentTime = 0 /\ video = FreshVideo /\ isSeekingRef = FALSE

InitApp ==
  /\ rev \in Revs
  /\ role \in [Users -> Roles]
  /\ currentUser = NoUser
  /\ mediaFile = FALSE
  /\ subtitles = <<>>
  /\ history = <<>>
  /\ historyIndex = -1
  /\ status = "IDLE"
  /\ pending = {}
  /\ loads = [u \in Users |-> 0]
  /\ saveQueue = <<>>
  /\ saved \in [Users -> {<<>>, <<StoredSubtitles>>}]
  /\ Stopped

\* The workspace view is rendered, so its buttons and inputs can fire.  A
\* render with subtitles undefined throws (subtitles.filter / .find / .map).
Workspace(r) == rev = r /\ currentUser # NoUser

\* Once a render has thrown, React unmounts the component tree.
Crashed == subtitles = Undefined

Fixed == UNCHANGED <<rev, role>>

\* The playback clock and the media element are left alone
Playback == UNCHANGED <<currentTime, video, isSeekingRef>>

Range(f) == {f[j] : j \in DOMAIN f}

\* Every document some state or task still holds
HeldDocs ==
  {subtitles} \cup Range(history)
  \cup {r.subtitles : r \in pending}
  \cup UNION {Range(r.history) : r \in pending}
  \cup UNION {Range(saved[u]) : u \in Users}
  \cup {q.subtitles : q \in Range(saveQueue)}

\* Date.now() when a generation result is mapped: later than the time of every
\* earlier generation, so different from the stamp in every held identifier.
\* Only equality of identifiers is ever tested, so the least unused stamp
\* stands for it.
UsedStamps == {e.id \div 10 : e \in UNION {Range(d) : d \in HeldDocs}}
Now == CHOOSE k \in 1..(Cardinality(UsedStamps) + 1) :
         k \notin UsedStamps /\ \A j \in 1..(k - 1) : j \in UsedStamps
Session == UNCHANGED <<currentUser, loads, saved>>

-----------------------------------------------------------------------------
(* Session: AuthScreen, AdminPortal, mockBackend *)

\* The portal an admin passes through on the way to and from the workspace
\* holds no editor state; passing through it is part of the step that enters
\* or leaves the workspace.

\* r1 handleLoginSuccess: loadUserProject for a user, the portal for an admin
R1_handleLoginSuccess(u) ==
  /\ rev = "r1" /\ currentUser = NoUser
  /\ currentUser' = u
  /\ loads' = IF role[u] = "admin" THEN loads ELSE [loads EXCEPT ![u] = @ + 1]
  /\ Fixed
  /\ UNCHANGED <<mediaFile, subtitles, history, historyIndex, status, pending,
                 saveQueue, saved>>

\* r1 handleLogout, offered by the AdminPortal only: history and historyIndex stay
R1_handleLogout ==
  /\ rev = "r1" /\ currentUser # NoUser /\ role[currentUser] = "admin"
  /\ currentUser' = NoUser
  /\ subtitles' = <<>>
  /\ mediaFile' = FALSE
  /\ Fixed
  /\ UNCHANGED <<history, historyIndex, status, pending, loads, saveQueue, saved>>

\* r2 handleLoginSuccess: loadUserData for a user; for an admin the portal,
\* whose onSelect('workspace') calls loadUserData
R2_handleLoginSuccess(u) ==
  /\ rev = "r2" /\ currentUser = NoUser
  /\ currentUser' = u
  /\ loads' = [loads EXCEPT ![u] = @ + 1]
  /\ Fixed
  /\ UNCHANGED <<mediaFile, subtitles, history, historyIndex, status, pending,
                 saveQueue, saved>>

\* r2 "Back to Portal" and onSelect('workspace') again: another loadUserData
R2_onSelect ==
  /\ rev = "r2" /\ currentUser # NoUser /\ role[currentUser] = "admin"
  /\ loads' = [loads EXCEPT ![currentUser] = @ + 1]
  /\ Fixed
  /\ UNCHANGED <<currentUser, saved, mediaFile, subtitles, history,
                 historyIndex, status, pending, saveQueue>>

\* r2 handleLogout (workspace header and AdminPortal)
R2_handleLogout ==
  /\ rev = "r2" /\ currentUser # NoUser
  /\ currentUser' = NoUser
  /\ mediaFile' = FALSE
  /\ subtitles' = <<>>
  /\ Fixed
  /\ UNCHANGED <<history, historyIndex, status, pending, loads, saveQueue, saved>>

\* loadUserProject / loadUserData after `await mockBackend.loadUserWork`:
\* the stored record is read when the delay ends
LoadLanded(u) ==
  /\ loads[u] > 0
  /\ loads' = [loads EXCEPT ![u] = @ - 1]
  /\ IF saved[u] # <<>>
     THEN /\ subtitles' = saved[u][1]
          /\ history' = <<saved[u][1]>>
          /\ historyIndex' = 0
     ELSE UNCHANGED <<subtitles, history, historyIndex>>
  /\ Fixed
  /\ UNCHANGED <<currentUser, saved, mediaFile, status, pending,
                 saveQueue>>

\* MockBackend.saveUserWork after its delay: the record of userId is replaced
SaveLanded ==
  /\ saveQueue # <<>>
  /\ saved' = [saved EXCEPT ![Head(saveQueue).userId] = <<Head(saveQueue).subtitles>>]
  /\ saveQueue' = Tail(saveQueue)
  /\ Fixed
  /\ UNCHANGED <<currentUser, loads, mediaFile, subtitles, history,
                 historyIndex, status, pending>>

-----------------------------------------------------------------------------
(* Document operations shared by both revisions *)

\* subtitles.map(s => s.id === id ? { ...s, ...updates } : s), updates = {text}
UpdateText(subs, id, t) ==
  [j \in 1..Len(subs) |-> IF subs[j].id = id THEN [subs[j] EXCEPT !.text = t]
                          ELSE subs[j]]

\* The same with updates = {startTime: v} or {endTime: v}
UpdateTime(subs, id, f, v) ==
  [j \in 1..Len(subs) |->
     IF subs[j].id # id THEN subs[j]
     ELSE IF f = "startTime" THEN [subs[j] EXCEPT !.startTime = v]
          ELSE [subs[j] EXCEPT !.endTime = v]]

\* The seconds prop of the TimeInput of field f of event id
TimeOf(subs, id, f) ==
  LET e == CHOOSE x \in Range(subs) : x.id = id
  IN  IF f = "startTime" THEN e.startTime ELSE e.endTime

\* parseFloat(x.toFixed(3)): the nearest whole millisecond
ToFixed3(t) == ((t + 1) \div TicksPerMs) * TicksPerMs

\* A shift of every time without the clamp at 0
SyncSubtitlesUnclamped(subs, offsetMs) ==
  [j \in 1..Len(subs) |->
     [subs[j] EXCEPT !.startTime = @ + Ms(offsetMs),
                     !.endTime = @ + Ms(offsetMs)]]

\* r1 handleSync: Math.max(0, time + offset), start and end independently
SyncSubtitles(subs, offsetMs) ==
  [j \in 1..Len(subs) |->
     [subs[j] EXCEPT !.startTime = Max(0, @ + Ms(offsetMs)),
                     !.endTime = Max(0, @ + Ms(offsetMs))]]

\* r2 handleSyncOffset: the sum is rounded to the millisecond before the clamp
SyncOffsetSubtitles(subs, offsetMs) ==
  [j \in 1..Len(subs) |->
     [subs[j] EXCEPT !.startTime = Max(0, ToFixed3(@ + Ms(offsetMs))),
                     !.endTime = Max(0, ToFixed3(@ + Ms(offsetMs)))]]

TimesWithin(subs) == \A j \in 1..Len(subs) : subs[j].endTime <= Ms(MaxTime)
                                            /\ subs[j].startTime <= Ms(MaxTime)

-----------------------------------------------------------------------------
(* Revision r1: src/App.tsx lines 43-620 *)

R1_handleFileUpload ==
  /\ Workspace("r1")
  /\ subtitles' = <<>>
  /\ history' = <<>>
  /\ historyIndex' = -1
  /\ mediaFile' = TRUE
  /\ status' = "IDLE"
  /\ Fixed /\ Session
  /\ UNCHANGED <<pending, saveQueue>>

R1_handleReset ==
  /\ Workspace("r1")
  /\ subtitles' = <<>>
  /\ history' = <<>>
  /\ historyIndex' = -1
  /\ mediaFile' = FALSE
  /\ Fixed /\ Session
  /\ UNCHANGED <<status, pending, saveQueue>>

\* GoogleDrivePicker onSelectFile: setHistory([]) without setHistoryIndex
R1_onSelectFile ==
  /\ Workspace("r1")
  /\ status' = "UPLOADING"
  /\ subtitles' = <<>>
  /\ history' = <<>>
  /\ pending' = pending \cup {Request("driveTimer", <<>>, -1, <<>>, NoUser)}
  /\ Fixed /\ Session
  /\ UNCHANGED <<historyIndex, mediaFile, saveQueue>>

R1_driveTimeout(r) ==
  /\ rev = "r1" /\ r \in pending /\ r.kind = "driveTimer"
  /\ status' = "IDLE"
  /\ pending' = pending \ {r}
  /\ Fixed /\ Session
  /\ UNCHANGED <<subtitles, history, historyIndex, mediaFile, saveQueue>>

\* handleGenerate up to its await
R1_handleGenerate ==
  /\ Workspace("r1")
  /\ mediaFile
  /\ status \in {"IDLE", "READY"}
  /\ status' = "ANALYZING"
  /\ pending' = pending \cup
       {Request("generate", history, historyIndex, <<>>, currentUser)}
  /\ Fixed /\ Session
  /\ UNCHANGED <<subtitles, history, historyIndex, mediaFile, saveQueue>>

\* handleGenerate after its await, the service having answered n items
R1_generateResolved(r, n) ==
  /\ rev = "r1" /\ r \in pending /\ r.kind = "generate"
  /\ subtitles' = GeneratedSubtitles(Now, n)
  /\ addToHistory(r.history, r.historyIndex, r.user, GeneratedSubtitles(Now, n))
  /\ status' = "READY"
  /\ pending' = pending \ {r}
  /\ Fixed /\ Session
  /\ UNCHANGED <<mediaFile>>

\* handleGenerate's catch
R1_generateRejected(r) ==
  /\ rev = "r1" /\ r \in pending /\ r.kind = "generate"
  /\ status' = "ERROR"
  /\ pending' = pending \ {r}
  /\ Fixed /\ Session
  /\ UNCHANGED <<subtitles, history, historyIndex, mediaFile, saveQueue>>

R1_handleTranslate ==
  /\ Workspace("r1")
  /\ Len(subtitles) # 0
  /\ status' = "TRANSLATING"
  /\ pending' = pending \cup
       {Request("translate", history, historyIndex, subtitles, currentUser)}
  /\ Fixed /\ Session
  /\ UNCHANGED <<subtitles, history, historyIndex, mediaFile, saveQueue>>

R1_translateResolved(r, translationMap) ==
  /\ rev = "r1" /\ r \in pending /\ r.kind = "translate"
  /\ subtitles' = TranslateWith(r.subtitles, translationMap)
  /\ addToHistory(r.history, r.historyIndex, r.user,
                  TranslateWith(r.subtitles, translationMap))
  /\ status' = "READY"
  /\ pending' = pending \ {r}
  /\ Fixed /\ Session
  /\ UNCHANGED <<mediaFile>>

\* A failure that leaves the texts translated so far in the document
R1_translateRejectedPartial(r) ==
  /\ rev = "r1" /\ r \in pending /\ r.kind = "translate"
  /\ subtitles' = TranslatedSubtitles(r.subtitles, Ids(r.subtitles))
  /\ status' = "ERROR"
  /\ pending' = pending \ {r}
  /\ Fixed /\ Session
  /\ UNCHANGED <<history, historyIndex, mediaFile, saveQueue>>

R1_translateRejected(r) ==
  /\ rev = "r1" /\ r \in pending /\ r.kind = "translate"
  /\ status' = "ERROR"
  /\ pending' = pending \ {r}
  /\ Fixed /\ Session
  /\ UNCHANGED <<subtitles, history, historyIndex, mediaFile, saveQueue>>

R1_handleSync(offsetMs) ==
  /\ Workspace("r1")
  /\ subtitles' = SyncSubtitles(subtitles, offsetMs)
  /\ addToHistory(history, historyIndex, currentUser, SyncSubtitles(subtitles, offsetMs))
  /\ Fixed /\ Session
  /\ UNCHANGED <<mediaFile, status, pending>>

R1_onUpdateSubtitle(id, t) ==
  /\ Workspace("r1")
  /\ subtitles' = UpdateText(subtitles, id, t)
  /\ Fixed /\ Session
  /\ UNCHANGED <<history, historyIndex, mediaFile, status, pending, saveQueue>>

\* TimeInput.handleBlur with a parsed value v other than the shown one:
\* onChange(v), then setTimeout(onCommit, 100) with the onCommit of this render
R1_handleBlur(id, f, v) ==
  /\ Workspace("r1")
  /\ id \in Ids(subtitles)
  /\ v # TimeOf(subtitles, id, f)
  /\ subtitles' = UpdateTime(subtitles, id, f, v)
  /\ pending' = pending \cup
       {Request("commitTimer", history, historyIndex, subtitles, currentUser)}
  /\ Fixed /\ Session
  /\ UNCHANGED <<history, historyIndex, mediaFile, status, saveQueue>>

\* The timer fires: onCommitChanges of the render of the blur
R1_commitTimer(r) ==
  /\ rev = "r1" /\ r \in pending /\ r.kind = "commitTimer"
  /\ addToHistory(r.history, r.historyIndex, r.user, r.subtitles)
  /\ pending' = pending \ {r}
  /\ Fixed /\ Session
  /\ UNCHANGED <<subtitles, mediaFile, status>>

\* onCommitChanges from the blur of a text or speaker field
R1_onCommitChanges ==
  /\ Workspace("r1")
  /\ Len(subtitles) # 0
  /\ addToHistory(history, historyIndex, currentUser, subtitles)
  /\ Fixed /\ Session
  /\ UNCHANGED <<subtitles, mediaFile, status, pending>>

\* A delete that records the snapshot and leaves the event on screen
R1_onDeleteSubtitleUnshown(id) ==
  /\ Workspace("r1")
  /\ id \in Ids(subtitles)
  /\ addToHistory(history, historyIndex, currentUser, FilterOut(subtitles, id))
  /\ Fixed /\ Session
  /\ UNCHANGED <<subtitles, mediaFile, status, pending>>

R1_onDeleteSubtitle(id) ==
  /\ Workspace("r1")
  /\ subtitles' = FilterOut(subtitles, id)
  /\ addToHistory(history, historyIndex, currentUser, FilterOut(subtitles, id))
  /\ Fixed /\ Session
  /\ UNCHANGED <<mediaFile, status, pending>>

\* undo: nothing happens unless historyIndex > 0
R1_undo ==
  /\ Workspace("r1")
  /\ IF historyIndex > 0
     THEN /\ historyIndex' = historyIndex - 1
          /\ subtitles' = At(history, historyIndex - 1)
     ELSE UNCHANGED <<historyIndex, subtitles>>
  /\ Fixed /\ Session
  /\ UNCHANGED <<history, mediaFile, status, pending, saveQueue>>

\* A redo without its guard
R1_redoUnguarded ==
  /\ Workspace("r1")
  /\ historyIndex' = historyIndex + 1
  /\ subtitles' = At(history, historyIndex + 1)
  /\ Fixed /\ Session
  /\ UNCHANGED <<history, mediaFile, status, pending, saveQueue>>

\* redo: nothing happens unless historyIndex < history.length - 1
R1_redo ==
  /\ Workspace("r1")
  /\ IF historyIndex < Len(history) - 1
     THEN /\ historyIndex' = historyIndex + 1
          /\ subtitles' = At(history, historyIndex + 1)
     ELSE UNCHANGED <<historyIndex, subtitles>>
  /\ Fixed /\ Session
  /\ UNCHANGED <<history, mediaFile, status, pending, saveQueue>>

-----------------------------------------------------------------------------
(* Revision r2: src/App.tsx lines 660-1233 *)

\* The "Import Media" input is rendered while there is no media
R2_handleFileUpload ==
  /\ Workspace("r2")
  /\ ~mediaFile
  /\ mediaFile' = TRUE
  /\ IF Len(subtitles) = 0
     THEN /\ subtitles' = <<>>
          /\ history' = << <<>> >>
          /\ historyIndex' = 0
     ELSE UNCHANGED <<subtitles, history, historyIndex>>
  /\ status' = "READY"
  /\ Fixed /\ Session
  /\ UNCHANGED <<pending, saveQueue>>

\* The "Close Project" button is rendered while there is media
R2_handleResetProject ==
  /\ Workspace("r2")
  /\ mediaFile
  /\ mediaFile' = FALSE
  /\ subtitles' = <<>>
  /\ history' = <<>>
  /\ historyIndex' = -1
  /\ status' = "IDLE"
  /\ Fixed /\ Session
  /\ UNCHANGED <<pending, saveQueue>>

\* "Auto-Generate" is rendered while there is media, no subtitle and no
\* analysis running; handleGenerate up to its await
R2_handleGenerate ==
  /\ Workspace("r2")
  /\ mediaFile
  /\ Len(subtitles) = 0
  /\ status \notin {"ANALYZING", "UPLOADING"}
  /\ status' = "ANALYZING"
  /\ pending' = pending \cup
       {Request("generate", history, historyIndex, <<>>, currentUser)}
  /\ Fixed /\ Session
  /\ UNCHANGED <<subtitles, history, historyIndex, mediaFile, saveQueue>>

R2_generateResolved(r, n) ==
  /\ rev = "r2" /\ r \in pending /\ r.kind = "generate"
  /\ pushToHistory(r.history, r.historyIndex, r.user, subtitles,
                   GeneratedSubtitles(Now, n))
  /\ status' = "IDLE"
  /\ pending' = pending \ {r}
  /\ Fixed /\ Session
  /\ UNCHANGED <<mediaFile>>

R2_generateRejected(r) ==
  /\ rev = "r2" /\ r \in pending /\ r.kind = "generate"
  /\ status' = "ERROR"
  /\ pending' = pending \ {r}
  /\ Fixed /\ Session
  /\ UNCHANGED <<subtitles, history, historyIndex, mediaFile, saveQueue>>

\* The translate button is rendered while there are subtitles
R2_handleTranslate ==
  /\ Workspace("r2")
  /\ Len(subtitles) # 0
  /\ status' = "TRANSLATING"
  /\ pending' = pending \cup
       {Request("translate", history, historyIndex, subtitles, currentUser)}
  /\ Fixed /\ Session
  /\ UNCHANGED <<subtitles, history, historyIndex, mediaFile, saveQueue>>

R2_translateResolved(r, translationMap) ==
  /\ rev = "r2" /\ r \in pending /\ r.kind = "translate"
  /\ pushToHistory(r.history, r.historyIndex, r.user, subtitles,
                   TranslateWith(r.subtitles, translationMap))
  /\ status' = "IDLE"
  /\ pending' = pending \ {r}
  /\ Fixed /\ Session
  /\ UNCHANGED <<mediaFile>>

R2_translateRejected(r) ==
  /\ rev = "r2" /\ r \in pending /\ r.kind = "translate"
  /\ status' = "ERROR"
  /\ pending' = pending \ {r}
  /\ Fixed /\ Session
  /\ UNCHANGED <<subtitles, history, historyIndex, mediaFile, saveQueue>>

\* The sync menu is rendered while there are subtitles
R2_handleSyncOffset(offsetMs) ==
  /\ Workspace("r2")
  /\ Len(subtitles) # 0
  /\ pushToHistory(history, historyIndex, currentUser, subtitles,
                   SyncOffsetSubtitles(subtitles, offsetMs))
  /\ Fixed /\ Session
  /\ UNCHANGED <<mediaFile, status, pending>>

R2_onUpdateSubtitle(id, t) ==
  /\ Workspace("r2")
  /\ subtitles' = UpdateText(subtitles, id, t)
  /\ Fixed /\ Session
  /\ UNCHANGED <<history, historyIndex, mediaFile, status, pending, saveQueue>>

\* TimeInput.handleBlur: onChange(v), then setTimeout(onCommit, 100)
R2_handleBlur(id, f, v) ==
  /\ Workspace("r2")
  /\ id \in Ids(subtitles)
  /\ v # TimeOf(subtitles, id, f)
  /\ subtitles' = UpdateTime(subtitles, id, f, v)
  /\ pending' = pending \cup
       {Request("commitTimer", history, historyIndex, subtitles, currentUser)}
  /\ Fixed /\ Session
  /\ UNCHANGED <<history, historyIndex, mediaFile, status, saveQueue>>

\* The timer fires: commitChanges of the render of the blur
R2_commitTimer(r) ==
  /\ rev = "r2" /\ r \in pending /\ r.kind = "commitTimer"
  /\ pushToHistory(r.history, r.historyIndex, r.user, subtitles, r.subtitles)
  /\ pending' = pending \ {r}
  /\ Fixed /\ Session
  /\ UNCHANGED <<mediaFile, status>>

\* commitChanges from the blur of a text or speaker field
R2_commitChanges ==
  /\ Workspace("r2")
  /\ Len(subtitles) # 0
  /\ pushToHistory(history, historyIndex, currentUser, subtitles, subtitles)
  /\ Fixed /\ Session
  /\ UNCHANGED <<mediaFile, status, pending>>

R2_onDeleteSubtitle(id) ==
  /\ Workspace("r2")
  /\ pushToHistory(history, historyIndex, currentUser, FilterOut(subtitles, id),
                   FilterOut(subtitles, id))
  /\ Fixed /\ Session
  /\ UNCHANGED <<mediaFile, status, pending>>

\* handleUndo (button or Ctrl+Z): nothing happens unless historyIndex > 0
R2_handleUndo ==
  /\ Workspace("r2")
  /\ IF historyIndex > 0
     THEN /\ historyIndex' = historyIndex - 1
          /\ subtitles' = At(history, historyIndex - 1)
          /\ SaveUserWork(currentUser, At(history, historyIndex - 1))
     ELSE UNCHANGED <<historyIndex, subtitles, saveQueue>>
  /\ Fixed /\ Session
  /\ UNCHANGED <<history, mediaFile, status, pending>>

\* handleRedo (button or Ctrl+Y)
R2_handleRedo ==
  /\ Workspace("r2")
  /\ IF historyIndex < Len(history) - 1
     THEN /\ historyIndex' = historyIndex + 1
          /\ subtitles' = At(history, historyIndex + 1)
          /\ SaveUserWork(currentUser, At(history, historyIndex + 1))
     ELSE UNCHANGED <<historyIndex, subtitles, saveQueue>>
  /\ Fixed /\ Session
  /\ UNCHANGED <<history, mediaFile, status, pending>>

-----------------------------------------------------------------------------
(* The application *)

\* Requests, timers and loads in flight
RECURSIVE SumLoads(_)
SumLoads(S) == IF S = {} THEN 0
               ELSE LET u == CHOOSE x \in S : TRUE
                    IN  loads[u] + SumLoads(S \ {u})

InFlight == Cardinality(pending) + SumLoads(Users)

InBounds ==
  /\ Len(history) <= MaxHist
  /\ InFlight <= MaxInFlight
  /\ TimesWithin(subtitles)

\* One event handled: a save lands (200 ms) before the next event is handled,
\* and a tree that has thrown handles none.
Step(A) ==
  /\ ~Crashed /\ saveQueue = <<>>
  /\ A
  /\ InBounds'
  /\ UNCHANGED pc /\ Playback

Next ==
  \/ \E u \in Users : Step(R1_handleLoginSuccess(u))
  \/ Step(R1_handleLogout)
  \/ \E u \in Users : Step(R2_handleLoginSuccess(u))
  \/ Step(R2_onSelect)
  \/ Step(R2_handleLogout)
  \/ \E u \in Users : Step(LoadLanded(u))
  \/ Step(R1_handleFileUpload)
  \/ Step(R1_handleReset)
  \/ Step(R1_onSelectFile)
  \/ \E r \in pending : Step(R1_driveTimeout(r))
  \/ Step(R1_handleGenerate)
  \/ \E r \in pending, n \in GeneratedSizes : Step(R1_generateResolved(r, n))
  \/ \E r \in pending : Step(R1_generateRejected(r))
  \/ Step(R1_handleTranslate)
  \/ \E r \in pending : \E ids \in SUBSET Ids(r.subtitles) : Step(R1_translateResolved(r, Named(ids)))
  \/ \E r \in pending : Step(R1_translateRejected(r))
  \/ \E d \in {-SyncStepR1, SyncStepR1} : Step(R1_handleSync(d))
  \/ \E id \in Ids(subtitles), t \in EditTexts : Step(R1_onUpdateSubtitle(id, t))
  \/ \E id \in Ids(subtitles), f \in TimeFields, v \in TimeInputs : Step(R1_handleBlur(id, f, v))
  \/ \E r \in pending : Step(R1_commitTimer(r))
  \/ Step(R1_onCommitChanges)
  \/ \E id \in Ids(subtitles) : Step(R1_onDeleteSubtitle(id))
  \/ Step(R1_undo)
  \/ Step(R1_redo)
  \/ Step(R2_handleFileUpload)
  \/ Step(R2_handleResetProject)
  \/ Step(R2_handleGenerate)
  \/ \E r \in pending, n \in GeneratedSizes : Step(R2_generateResolved(r, n))
  \/ \E r \in pending : Step(R2_generateRejected(r))
  \/ Step(R2_handleTranslate)
  \/ \E r \in pending : \E ids \in SUBSET Ids(r.subtitles) : Step(R2_translateResolved(r, Named(ids)))
  \/ \E r \in pending : Step(R2_translateRejected(r))
  \/ \E d \in {-SyncStepSmallR2, SyncStepSmallR2, -SyncStepLargeR2, SyncStepLargeR2} : Step(R2_handleSyncOffset(d))
  \/ \E id \in Ids(subtitles), t \in EditTexts : Step(R2_onUpdateSubtitle(id, t))
  \/ \E id \in Ids(subtitles), f \in TimeFields, v \in TimeInputs : Step(R2_handleBlur(id, f, v))
  \/ \E r \in pending : Step(R2_commitTimer(r))
  \/ Step(R2_commitChanges)
  \/ \E id \in Ids(subtitles) : Step(R2_onDeleteSubtitle(id))
  \/ Step(R2_handleUndo)
  \/ Step(R2_handleRedo)
  \/ SaveLanded /\ UNCHANGED pc /\ Playback

Init == InitApp /\ pc = 0

Spec == Init /\ [][Next]_vars

-----------------------------------------------------------------------------
(* Steps named by what the handler does *)

\* A result of generation or translation lands
GenerateLands(r, n) == R1_generateResolved(r, n) \/ R2_generateResolved(r, n)
TranslateLands(r, ids) ==
  R1_translateResolved(r, Named(ids)) \/ R2_translateResolved(r, Named(ids))
TimerFires(r) == R1_commitTimer(r) \/ R2_commitTimer(r)

CallStarts == R1_handleGenerate \/ R2_handleGenerate \/ R1_handleTranslate \/ R2_handleTranslate
CallFails ==
  \E r \in pending : \/ R1_generateRejected(r) \/ R2_generateRejected(r)
                     \/ R1_translateRejected(r) \/ R2_translateRejected(r)

UndoStep == R1_undo \/ R2_handleUndo
RedoStep == R1_redo \/ R2_handleRedo

\* The history after a commit of newSubtitles onto the history of this state
CommittedOnTop(newSubtitles) ==
  /\ history' = Append(Slice0(history, historyIndex + 1), newSubtitles)
  /\ historyIndex' = Len(history') - 1

NotCurrent(newSubtitles) == newSubtitles # At(history, historyIndex)

-----------------------------------------------------------------------------
(* History: commit *)

\* C1: a commit that is not a duplicate of the current snapshot, made when the
\* history is h and the index i, leaves the history h[0..i] followed by the new
\* snapshot and the index on the last position.  Stated of every handler that
\* commits: blur of a text field, deferred commit of a time field, delete,
\* offset, landed generation and landed translation.
C1_CommitTruncatesAndAppends ==
  [][ /\ (R1_onCommitChanges \/ R2_commitChanges) /\ NotCurrent(subtitles)
           => CommittedOnTop(subtitles)
      /\ \A id \in Ids(subtitles) :
           (R1_onDeleteSubtitle(id) \/ R2_onDeleteSubtitle(id))
           /\ NotCurrent(FilterOut(subtitles, id))
           => CommittedOnTop(FilterOut(subtitles, id))
      /\ \A r \in pending : TimerFires(r) /\ NotCurrent(r.subtitles)
           => CommittedOnTop(r.subtitles)
      /\ \A r \in pending, n \in GeneratedSizes :
           GenerateLands(r, n) /\ NotCurrent(GeneratedSubtitles(Now, n))
           => CommittedOnTop(GeneratedSubtitles(Now, n))
      /\ \A r \in pending : \A ids \in SUBSET Ids(r.subtitles) :
           TranslateLands(r, ids) /\ NotCurrent(TranslatedSubtitles(r.subtitles, ids))
           => CommittedOnTop(TranslatedSubtitles(r.subtitles, ids))
    ]_vars

\* C3: a commit of a snapshot identical to the snapshot at the current index
\* changes neither the history nor the index.
C3_DuplicateCommitIsNoOp ==
  [][ (R1_onCommitChanges \/ R2_commitChanges)
      /\ historyIndex >= 0 /\ historyIndex < Len(history)
      /\ subtitles = history[historyIndex + 1]
      => UNCHANGED <<history, historyIndex>> ]_vars

\* C5: whenever the history is non-empty the index is one of its positions.
C5_IndexWithinHistory ==
  history # <<>> => historyIndex >= 0 /\ historyIndex < Len(history)

\* An undo has moved the index off the newest of two entries.
C5_Witness == Len(history) = 2 /\ historyIndex = 0 /\ subtitles = history[1]

C7_UndoRedo ==
  [][ /\ UndoStep =>
           IF historyIndex > 0 /\ history # <<>>
           THEN /\ historyIndex' = historyIndex - 1
                /\ historyIndex' < Len(history)
                /\ subtitles' = history[historyIndex' + 1]
                /\ history' = history
           ELSE UNCHANGED <<historyIndex, history, subtitles>>
      /\ RedoStep =>
           IF historyIndex < Len(history) - 1
           THEN /\ historyIndex' = historyIndex + 1
                /\ historyIndex' >= 0
                /\ subtitles' = history[historyIndex' + 1]
                /\ history' = history
           ELSE UNCHANGED <<historyIndex, history, subtitles>>
    ]_vars

-----------------------------------------------------------------------------
(* Asynchronous results *)

\* The project a request in flight was started on has been closed: a
\* generation needs media and a translation a document, and only a reset takes
\* media, document and history away together.
Superseded ==
  /\ currentUser # NoUser /\ ~mediaFile
  /\ history = <<>> /\ subtitles = <<>>

\* C9: a result that lands after the project was closed changes neither the
\* document nor the history.
C9_LateResultIgnored ==
  [][ /\ Superseded
      /\ \E r \in pending :
           \/ \E n \in GeneratedSizes : GenerateLands(r, n)
           \/ \E ids \in SUBSET Ids(r.subtitles) : TranslateLands(r, ids)
      => UNCHANGED <<subtitles, history, historyIndex>> ]_vars

\* C10: neither the start of a generate or translate call nor its failure
\* changes the document, the history or the index.
C10_FailedCallChangesNothing ==
  [][ CallStarts \/ CallFails => UNCHANGED <<subtitles, history, historyIndex>> ]_vars

\* A call has failed on a project with a document and a history.
C10_Witness ==
  /\ status = "ERROR" /\ pending = {}
  /\ subtitles # <<>> /\ history # <<>> /\ subtitles = At(history, historyIndex)

-----------------------------------------------------------------------------
(* The history at its capacity: a restored project, then blur commits, text
   edits, undo and redo until the history could hold one entry more than the
   limit.  In r1 every blur of a text field commits; in r2 only a blur after
   a change of the text does. *)

CapHist == HistoryLimit + 1
CapTexts == {"a", "b"}

\* The state after login and loadUserProject / loadUserData of a stored project
Restored ==
  /\ rev \in Revs
  /\ role = [u \in Users |-> "user"]
  /\ currentUser = "u1"
  /\ mediaFile = FALSE
  /\ subtitles = StoredSubtitles
  /\ history = <<StoredSubtitles>>
  /\ historyIndex = 0
  /\ status = "IDLE"
  /\ pending = {}
  /\ loads = [u \in Users |-> 0]
  /\ saveQueue = <<>>
  /\ saved = [u \in Users |-> <<StoredSubtitles>>]

InitCap == Restored /\ Stopped /\ pc = 0

CapStep(A) ==
  /\ saveQueue = <<>>
  /\ A
  /\ Len(history') <= CapHist
  /\ UNCHANGED pc /\ Playback

NextCap ==
  \/ CapStep(R1_onCommitChanges)
  \/ CapStep(R1_undo)
  \/ CapStep(R1_redo)
  \/ \E id \in Ids(subtitles), t \in CapTexts : CapStep(R2_onUpdateSubtitle(id, t))
  \/ CapStep(R2_commitChanges)
  \/ CapStep(R2_handleUndo)
  \/ CapStep(R2_handleRedo)
  \/ SaveLanded /\ UNCHANGED pc /\ Playback

SpecCap == InitCap /\ [][NextCap]_vars

\* C4: the history never holds more than 50 snapshots.
C4_HistoryWithinLimit == Len(history) <= HistoryLimit

-----------------------------------------------------------------------------
(* Generation racing with the load that follows a login and with a second
   generation started on a re-opened project *)

RaceInFlight == MaxInFlight + 1

\* The state after handleLoginSuccess of a user with a stored project
LoggedIn ==
  /\ rev \in Revs
  /\ role = [u \in Users |-> "user"]
  /\ currentUser = "u1"
  /\ mediaFile = FALSE
  /\ subtitles = <<>>
  /\ history = <<>>
  /\ historyIndex = -1
  /\ status = "IDLE"
  /\ pending = {}
  /\ loads = [u \in Users |-> 1]
  /\ saveQueue = <<>>
  /\ saved = [u \in Users |-> <<StoredSubtitles>>]

InitRace == LoggedIn /\ Stopped /\ pc = 0

RaceStep(A) ==
  /\ saveQueue = <<>>
  /\ A
  /\ Len(history') <= MaxHist
  /\ Cardinality(pending') <= RaceInFlight
  /\ UNCHANGED pc /\ Playback

NextRace ==
  \/ \E u \in Users : RaceStep(LoadLanded(u))
  \/ RaceStep(R1_handleFileUpload)
  \/ RaceStep(R1_handleReset)
  \/ RaceStep(R1_handleGenerate)
  \/ \E r \in pending, n \in GeneratedSizes : RaceStep(R1_generateResolved(r, n))
  \/ \E r \in pending : RaceStep(R1_generateRejected(r))
  \/ \E id \in Ids(subtitles), t \in EditTexts : RaceStep(R1_onUpdateSubtitle(id, t))
  \/ RaceStep(R1_onCommitChanges)
  \/ \E id \in Ids(subtitles) : RaceStep(R1_onDeleteSubtitle(id))
  \/ RaceStep(R2_handleFileUpload)
  \/ RaceStep(R2_handleResetProject)
  \/ RaceStep(R2_handleGenerate)
  \/ \E r \in pending, n \in GeneratedSizes : RaceStep(R2_generateResolved(r, n))
  \/ \E r \in pending : RaceStep(R2_generateRejected(r))
  \/ \E id \in Ids(subtitles), t \in EditTexts : RaceStep(R2_onUpdateSubtitle(id, t))
  \/ RaceStep(R2_commitChanges)
  \/ \E id \in Ids(subtitles) : RaceStep(R2_onDeleteSubtitle(id))
  \/ SaveLanded /\ UNCHANGED pc /\ Playback

SpecRace == InitRace /\ [][NextRace]_vars

\* C8: when a generation result lands the visible document becomes exactly
\* the generated event list.
C8_GenerationReplacesDocument ==
  [][ \A r \in pending, n \in GeneratedSizes :
        GenerateLands(r, n) => subtitles' = GeneratedSubtitles(Now, n) ]_vars

-----------------------------------------------------------------------------
(* A script of commits, undos and redos on a freshly uploaded project, made
   one after the other: no handler runs while a request is in flight.  pc
   holds the history the script started on and the operations made so far. *)

ScriptLen == 4

\* The state after login without a stored project and handleFileUpload
Uploaded ==
  /\ rev \in Revs
  /\ role = [u \in Users |-> "user"]
  /\ currentUser = "u1"
  /\ mediaFile = TRUE
  /\ subtitles = <<>>
  /\ history = IF rev = "r1" THEN <<>> ELSE << <<>> >>
  /\ historyIndex = IF rev = "r1" THEN -1 ELSE 0
  /\ status = IF rev = "r1" THEN "IDLE" ELSE "READY"
  /\ pending = {}
  /\ loads = [u \in Users |-> 0]
  /\ saveQueue = <<>>
  /\ saved = [u \in Users |-> <<>>]

InitScript == Uploaded /\ Stopped /\ pc = [base |-> history, ops |-> <<>>]

ScriptOp(op, doc) == [op |-> op, doc |-> doc]

ScriptBounds == Len(pc'.ops) <= ScriptLen /\ TimesWithin(subtitles')

\* A handler that does not touch the history
Unlogged(A) ==
  /\ saveQueue = <<>> /\ pending = {}
  /\ A
  /\ UNCHANGED pc /\ Playback
  /\ ScriptBounds

\* A handler that commits newSubtitles: logged unless pushToHistory drops it
\* as a duplicate
Commits(A, newSubtitles) ==
  /\ saveQueue = <<>>
  /\ A
  /\ pc' = IF rev = "r2" /\ IsDuplicate(history, historyIndex, newSubtitles)
           THEN pc
           ELSE [pc EXCEPT !.ops = Append(@, ScriptOp("commit", newSubtitles))]
  /\ Playback
  /\ ScriptBounds

Navigates(A, op) ==
  /\ saveQueue = <<>> /\ pending = {}
  /\ A
  /\ pc' = [pc EXCEPT !.ops = Append(@, ScriptOp(op, <<>>))]
  /\ Playback
  /\ ScriptBounds

NextScript ==
  \/ Unlogged(R1_handleGenerate)
  \/ \E r \in pending, n \in GeneratedSizes : Commits(R1_generateResolved(r, n), GeneratedSubtitles(Now, n))
  \/ \E id \in Ids(subtitles), t \in EditTexts : Unlogged(R1_onUpdateSubtitle(id, t))
  \/ Commits(pending = {} /\ R1_onCommitChanges, subtitles)
  \/ \E id \in Ids(subtitles) : Commits(pending = {} /\ R1_onDeleteSubtitle(id), FilterOut(subtitles, id))
  \/ \E d \in {-SyncStepR1, SyncStepR1} : Commits(pending = {} /\ R1_handleSync(d), SyncSubtitles(subtitles, d))
  \/ Navigates(R1_undo, "undo")
  \/ Navigates(R1_redo, "redo")
  \/ Unlogged(R2_handleGenerate)
  \/ \E r \in pending, n \in GeneratedSizes : Commits(R2_generateResolved(r, n), GeneratedSubtitles(Now, n))
  \/ \E id \in Ids(subtitles), t \in EditTexts : Unlogged(R2_onUpdateSubtitle(id, t))
  \/ Commits(pending = {} /\ R2_commitChanges, subtitles)
  \/ \E id \in Ids(subtitles) : Commits(pending = {} /\ R2_onDeleteSubtitle(id), FilterOut(subtitles, id))
  \/ \E d \in {-SyncStepSmallR2, SyncStepSmallR2, -SyncStepLargeR2, SyncStepLargeR2} :
       Commits(pending = {} /\ R2_handleSyncOffset(d), SyncOffsetSubtitles(subtitles, d))
  \/ Navigates(R2_handleUndo, "undo")
  \/ Navigates(R2_handleRedo, "redo")
  \/ SaveLanded /\ UNCHANGED pc /\ Playback

SpecScript == InitScript /\ [][NextScript]_vars

\* The script commit(A), commit(B), undo(), commit(C) has run, A, B and C
\* pairwise different
ScriptRan ==
  /\ Len(pc.ops) = 4
  /\ pc.ops[1].op = "commit" /\ pc.ops[2].op = "commit"
  /\ pc.ops[3].op = "undo" /\ pc.ops[4].op = "commit"
  /\ pc.ops[1].doc # pc.ops[2].doc
  /\ pc.ops[1].doc # pc.ops[4].doc
  /\ pc.ops[2].doc # pc.ops[4].doc

-----------------------------------------------------------------------------
(* Translations of a restored project of two events, with text edits in
   between.  A text field can be emptied, and the service can return any
   string for an identifier, the empty one included, or leave it out.  The
   ghost pc.first records, for every event, the text it had when the first
   translation it took part in was requested. *)

TranslateHist == MaxHist + 1
TranslateTexts == {"", "b"}
TranslatedTexts == {"", "t"}
StoredPair == GeneratedSubtitles(0, 2)

\* The Maps a response for subs can give: any identifiers of the request,
\* each with any translated text
Responses(subs) == UNION {[ids -> TranslatedTexts] : ids \in SUBSET Ids(subs)}

RestoredPair ==
  /\ rev \in Revs
  /\ role = [u \in Users |-> "user"]
  /\ currentUser = "u1"
  /\ mediaFile = FALSE
  /\ subtitles = StoredPair
  /\ history = <<StoredPair>>
  /\ historyIndex = 0
  /\ status = "IDLE"
  /\ pending = {}
  /\ loads = [u \in Users |-> 0]
  /\ saveQueue = <<>>
  /\ saved = [u \in Users |-> <<StoredPair>>]

InitTranslate ==
  RestoredPair /\ Stopped /\ pc = [first |-> [id \in Ids(StoredPair) |-> NoText]]

TranslateBounds ==
  Len(history') <= TranslateHist /\ Cardinality(pending') <= MaxInFlight

TranslateStep(A) ==
  /\ saveQueue = <<>>
  /\ A
  /\ TranslateBounds
  /\ UNCHANGED pc /\ Playback

\* The text of the event id in the document subs
TextOf(subs, id) == (CHOOSE e \in Range(subs) : e.id = id).text

\* A translation of the request r lands: the first one of an event is noted
TranslationStep(A, r) ==
  /\ saveQueue = <<>>
  /\ A
  /\ TranslateBounds
  /\ pc' = [pc EXCEPT !.first =
              [id \in DOMAIN @ |-> IF @[id] = NoText /\ id \in Ids(r.subtitles)
                                   THEN <<TextOf(r.subtitles, id)>> ELSE @[id]]]
  /\ Playback

NextTranslate ==
  \/ \E id \in Ids(subtitles), t \in TranslateTexts : TranslateStep(R1_onUpdateSubtitle(id, t))
  \/ TranslateStep(R1_onCommitChanges)
  \/ TranslateStep(R1_handleTranslate)
  \/ \E r \in pending : \E m \in Responses(r.subtitles) : TranslationStep(R1_translateResolved(r, m), r)
  \/ \E r \in pending : TranslateStep(R1_translateRejected(r))
  \/ \E id \in Ids(subtitles), t \in TranslateTexts : TranslateStep(R2_onUpdateSubtitle(id, t))
  \/ TranslateStep(R2_commitChanges)
  \/ TranslateStep(R2_handleTranslate)
  \/ \E r \in pending : \E m \in Responses(r.subtitles) : TranslationStep(R2_translateResolved(r, m), r)
  \/ \E r \in pending : TranslateStep(R2_translateRejected(r))
  \/ SaveLanded /\ UNCHANGED pc /\ Playback

SpecTranslate == InitTranslate /\ [][NextTranslate]_vars

\* C11: after a translation every event whose identifier the response does not
\* name has the text it had when the translation was requested, and every
\* event whose identifier it names has the returned translated text.
C11_TranslationAppliesResponse ==
  [][\A r \in pending : \A m \in Responses(r.subtitles) :
       R1_translateResolved(r, m) \/ R2_translateResolved(r, m)
       => /\ Len(subtitles') = Len(r.subtitles)
          /\ \A j \in 1..Len(r.subtitles) :
               /\ subtitles'[j].id = r.subtitles[j].id
               /\ subtitles'[j].text = IF r.subtitles[j].id \in DOMAIN m
                                       THEN m[r.subtitles[j].id]
                                       ELSE r.subtitles[j].text]_vars

\* C12: originalText is set once and never overwritten: whatever translations
\* and text edits have happened, the originalText of every event that has been
\* translated is the text it had immediately before its first translation.
C12_OriginalTextSetOnce ==
  \A j \in 1..Len(subtitles) :
    LET id == subtitles[j].id
    IN  id \in DOMAIN pc.first /\ pc.first[id] # NoText
        => subtitles[j].originalText = pc.first[id]

-----------------------------------------------------------------------------
(* Persistence of a restored project.  mockBackend.saveUserWork is not
   awaited by the handler that calls it: the handler returns, further events
   are handled, and the record is written when the delay of the call ends.
   Every call waits the same delay, so the writes land in the order of the
   calls. *)

InitSave == Restored /\ Stopped /\ pc = 0

SaveStep(A) ==
  /\ A
  /\ Len(history') <= MaxHist /\ Len(saveQueue') <= MaxSaves
  /\ UNCHANGED pc /\ Playback

NextSave ==
  \/ \E id \in Ids(subtitles), t \in CapTexts : SaveStep(R1_onUpdateSubtitle(id, t))
  \/ SaveStep(R1_onCommitChanges)
  \/ \E id \in Ids(subtitles) : SaveStep(R1_onDeleteSubtitle(id))
  \/ SaveStep(R1_undo)
  \/ SaveStep(R1_redo)
  \/ \E id \in Ids(subtitles), t \in CapTexts : SaveStep(R2_onUpdateSubtitle(id, t))
  \/ SaveStep(R2_commitChanges)
  \/ \E id \in Ids(subtitles) : SaveStep(R2_onDeleteSubtitle(id))
  \/ SaveStep(R2_handleUndo)
  \/ SaveStep(R2_handleRedo)
  \/ SaveLanded /\ UNCHANGED pc /\ Playback

SpecSave == InitSave /\ [][NextSave]_vars

\* A step in which a handler commits: addToHistory, or pushToHistory past its
\* duplicate test
Committing ==
  \/ R1_onCommitChanges
  \/ \E id \in Ids(subtitles) : R1_onDeleteSubtitle(id)
  \/ /\ R2_commitChanges \/ \E id \in Ids(subtitles) : R2_onDeleteSubtitle(id)
     /\ <<history, historyIndex>>' # <<history, historyIndex>>

\* C13: the persisted project trails the document by at most one write cycle:
\* every commit of a logged-in user queues a save of the committed snapshot
\* (the handler does not wait for it), and whenever no triggered save is still
\* outstanding the persisted events are the snapshot at the current history
\* index.
C13_PersistedTrailsByOneCycle ==
  /\ [][Committing /\ currentUser # NoUser
        => saveQueue' = Append(saveQueue, [userId |-> currentUser,
                                           subtitles |-> At(history', historyIndex')])]_vars
  /\ [](currentUser # NoUser /\ saveQueue = <<>>
        => saved[currentUser] = <<At(history, historyIndex)>>)

-----------------------------------------------------------------------------
(* Playback: the clock of the App (currentTime), the media element of
   VideoPlayer and the seeking flag between them.  The media runs for
   MaxClock tenths of a second and positions are whole tenths.  Setting
   video.currentTime starts a seek; the element reports it with a seeking and
   a seeked event, which are dispatched later, each as a step of its own. *)

Abs(x) == IF x < 0 THEN -x ELSE x

Duration == Ms(100 * MaxClock)
ClockTimes == {Ms(100 * k) : k \in 0..MaxClock}

\* Events of a stored project around the start of the media: any start and
\* end, overlapping or not, an end before its start included
PlayerEvents(id) == {Subtitle(id, s, e, "a", NoText) : s, e \in {Ms(0), Ms(100)}}
PlayerDocs ==
  {<<>>} \cup {<<x>> : x \in PlayerEvents(1)}
  \cup {<<x, y>> : x \in PlayerEvents(1), y \in PlayerEvents(2)}

\* Array.prototype.find over the document: the position of the first event
\* (from position j on) whose inclusive range contains t, 0 when there is none
RECURSIVE FindFrom(_, _, _)
FindFrom(subs, t, j) ==
  IF j > Len(subs) THEN 0
  ELSE IF t >= subs[j].startTime /\ t <= subs[j].endTime THEN j
       ELSE FindFrom(subs, t, j + 1)

\* The same search taking the last event that contains t
RECURSIVE FindLastFrom(_, _, _)
FindLastFrom(subs, t, j) ==
  IF j < 1 THEN 0
  ELSE IF t >= subs[j].startTime /\ t <= subs[j].endTime THEN j
       ELSE FindLastFrom(subs, t, j - 1)

Null == -1

activeAtLast(subs, t) ==
  IF FindLastFrom(subs, t, Len(subs)) = 0 THEN Null
  ELSE subs[FindLastFrom(subs, t, Len(subs))].id

\* subtitles.find(s => t >= s.startTime && t <= s.endTime)?.id || null
activeAt(subs, t) ==
  IF FindFrom(subs, t, 1) = 0 THEN Null ELSE subs[FindFrom(subs, t, 1)].id

\* The effect of VideoPlayer on [currentTime], run after a render in which
\* currentTime has changed to t: the position it pushes to the element
SeekEffectAlways(t) ==
  IF t # currentTime /\ ~isSeekingRef
  THEN [video EXCEPT !.currentTime = t, !.events = @ \o <<"seeking", "seeked">>]
  ELSE video

SeekEffect(t) ==
  IF t # currentTime /\ ~isSeekingRef
     /\ Abs(video.currentTime - t) > Ms(SeekTolerance)
  THEN [video EXCEPT !.currentTime = t, !.events = @ \o <<"seeking", "seeked">>]
  ELSE video

\* setCurrentTime(t) and the render and effect that follow it
SetCurrentTime(t) ==
  /\ currentTime' = t
  /\ video' = SeekEffect(t)
  /\ UNCHANGED isSeekingRef

\* The element plays on by a tenth of a second
VideoPlays ==
  /\ mediaFile
  /\ video.currentTime < Duration
  /\ video' = [video EXCEPT !.currentTime = Min(Duration, @ + Ms(100))]
  /\ UNCHANGED <<currentTime, isSeekingRef>>

\* A tick that is forwarded whatever the seeking flag says
onTimeUpdateUnguarded ==
  /\ mediaFile
  /\ SetCurrentTime(video.currentTime)

\* <video onTimeUpdate>: the position is reported unless a seek is known to run
onTimeUpdate ==
  /\ mediaFile
  /\ IF isSeekingRef THEN UNCHANGED <<currentTime, video, isSeekingRef>>
     ELSE SetCurrentTime(video.currentTime)

onSeeking ==
  /\ video.events # <<>> /\ Head(video.events) = "seeking"
  /\ isSeekingRef' = TRUE
  /\ video' = [video EXCEPT !.events = Tail(@)]
  /\ UNCHANGED currentTime

onSeeked ==
  /\ video.events # <<>> /\ Head(video.events) = "seeked"
  /\ isSeekingRef' = FALSE
  /\ video' = [video EXCEPT !.events = Tail(@)]
  /\ UNCHANGED currentTime

\* Timeline handleMouseDown / handleMouseMove: onSeek(clamp(time, 0, duration))
Timeline_onSeek(t) ==
  /\ currentUser # NoUser /\ Duration # 0
  /\ SetCurrentTime(Max(0, Min(t, Duration)))

\* SubtitleEditor row onClick: onSeek(sub.startTime)
Editor_onSeek(id) ==
  /\ currentUser # NoUser
  /\ id \in Ids(subtitles)
  /\ SetCurrentTime(TimeOf(subtitles, id, "startTime"))

\* r2 keyboard shortcuts
R2_ArrowLeft ==
  /\ Workspace("r2")
  /\ SetCurrentTime(Max(0, currentTime - Ms(KeyStep)))

R2_ArrowRight ==
  /\ Workspace("r2")
  /\ SetCurrentTime(Min(Duration, currentTime + Ms(KeyStep)))

\* A restored project with its media attached
InitPlayer ==
  /\ rev \in Revs
  /\ role = [u \in Users |-> "user"]
  /\ currentUser = "u1"
  /\ mediaFile = TRUE
  /\ subtitles \in PlayerDocs
  /\ history = <<subtitles>>
  /\ historyIndex = 0
  /\ status = "IDLE"
  /\ pending = {}
  /\ loads = [u \in Users |-> 0]
  /\ saveQueue = <<>>
  /\ saved = [u \in Users |-> <<subtitles>>]
  /\ Stopped
  /\ pc = 0

PlayerStep(A) ==
  /\ A
  /\ Len(video'.events) <= MaxEvents
  /\ UNCHANGED <<rev, role, currentUser, mediaFile, subtitles, history,
                 historyIndex, status, pending, loads, saveQueue, saved, pc>>

NextPlayer ==
  \/ PlayerStep(VideoPlays)
  \/ PlayerStep(onTimeUpdate)
  \/ PlayerStep(onSeeking)
  \/ PlayerStep(onSeeked)
  \/ \E t \in ClockTimes : PlayerStep(Timeline_onSeek(t))
  \/ \E id \in Ids(subtitles) : PlayerStep(Editor_onSeek(id))
  \/ PlayerStep(R2_ArrowLeft)
  \/ PlayerStep(R2_ArrowRight)

SpecPlayer == InitPlayer /\ [][NextPlayer]_vars

\* The positions of the events whose inclusive range contains the time t
Containing(subs, t) ==
  {j \in 1..Len(subs) : subs[j].startTime <= t /\ t <= subs[j].endTime}

\* C14: activeAt(t) returns no event when no event has startTime <= t <=
\* endTime, and otherwise the event with the lowest position in the document
\* among all the events whose inclusive range contains t.
C14_ActiveIsLowestMatch ==
  LET matches == Containing(subtitles, currentTime)
  IN  IF matches = {} THEN activeAt(subtitles, currentTime) = Null
      ELSE \E j \in matches :
             /\ \A k \in matches : j <= k
             /\ activeAt(subtitles, currentTime) = subtitles[j].id

\* Two overlapping events contain the current time: the first is the active one
C14_Witness ==
  /\ Len(subtitles) = 2
  /\ currentTime = Ms(100)
  /\ Containing(subtitles, currentTime) = {1, 2}
  /\ subtitles[1].id # subtitles[2].id
  /\ activeAt(subtitles, currentTime) = subtitles[1].id

\* A step in which a seek is pushed to the player
SeekPushed == Len(video'.events) > Len(video.events)

\* C20: a change of the time that differs from the position of the player by
\* at most 0.2 seconds pushes no seek to the player; a seek is pushed only
\* when the difference is more than 0.2 seconds and no seek is known to be in
\* progress (the seeking flag is down), and it moves the player to that time.
C20_SeekOnlyBeyondTolerance ==
  [][/\ currentTime' # currentTime /\ Abs(video.currentTime - currentTime') <= Ms(200)
        => ~SeekPushed /\ video'.currentTime = video.currentTime
     /\ SeekPushed
        => /\ Abs(video.currentTime - currentTime') > Ms(200)
           /\ ~isSeekingRef
           /\ video'.currentTime = currentTime']_vars

\* The time has been moved exactly 0.2 seconds away from the position of the
\* player and no seek was pushed
C20_Witness ==
  /\ currentTime = Ms(200) /\ video.currentTime = Ms(0)
  /\ video.events = <<>> /\ ~isSeekingRef

-----------------------------------------------------------------------------
(* Global offsets applied to a restored project, one after the other.  The
   times of a stored event are any numbers of seconds: a time typed into a
   time field or returned by the service need not be a whole millisecond.
   handleSync and handleSyncOffset take any offset; the sync buttons pass the
   steps of their revision. *)

OffsetHist == MaxHist + 2
LargeOffsets == {-100000}
OffsetTimes == {0, 1, Ms(2000)}
OffsetEvents(id) == {Subtitle(id, s, e, "a", NoText) : s, e \in OffsetTimes}
OffsetDocs ==
  {<<x>> : x \in OffsetEvents(1)}
  \cup {<<x, y>> : x \in OffsetEvents(1), y \in OffsetEvents(2)}

InitOffset ==
  /\ rev \in Revs
  /\ role = [u \in Users |-> "user"]
  /\ currentUser = "u1"
  /\ mediaFile = FALSE
  /\ subtitles \in OffsetDocs
  /\ history = <<subtitles>>
  /\ historyIndex = 0
  /\ status = "IDLE"
  /\ pending = {}
  /\ loads = [u \in Users |-> 0]
  /\ saveQueue = <<>>
  /\ saved = [u \in Users |-> <<subtitles>>]
  /\ Stopped
  /\ pc = 0

OffsetStep(A) ==
  /\ saveQueue = <<>>
  /\ A
  /\ Len(history') <= OffsetHist
  /\ UNCHANGED pc /\ Playback

NextOffset ==
  \/ \E d \in LargeOffsets \cup {-SyncStepR1, SyncStepR1} : OffsetStep(R1_handleSync(d))
  \/ \E d \in LargeOffsets \cup {-SyncStepSmallR2, SyncStepSmallR2,
                                 -SyncStepLargeR2, SyncStepLargeR2} :
       OffsetStep(R2_handleSyncOffset(d))
  \/ SaveLanded /\ UNCHANGED pc /\ Playback

SpecOffset == InitOffset /\ [][NextOffset]_vars

\* The offsets any handler is called with
AllOffsets ==
  LargeOffsets \cup {-SyncStepR1, SyncStepR1, -SyncStepSmallR2, SyncStepSmallR2,
                     -SyncStepLargeR2, SyncStepLargeR2}

OffsetApplied(d) == R1_handleSync(d) \/ R2_handleSyncOffset(d)

\* Every field of every event but its two times is as before
OnlyTimesChange ==
  /\ Len(subtitles') = Len(subtitles)
  /\ \A j \in 1..Len(subtitles) :
       [subtitles'[j] EXCEPT !.startTime = 0, !.endTime = 0]
       = [subtitles[j] EXCEPT !.startTime = 0, !.endTime = 0]

NearestMs(x, y) == x % TicksPerMs = 0 /\ Abs(x - y) <= TicksPerMs \div 2

-----------------------------------------------------------------------------
(* Timecode codec: src/utils.ts formatTime and parseTime.  A string is the
   sequence of its characters.  A number of seconds is a record: finite with
   its value in ticks, or not finite (NaN, Infinity, -Infinity).  parseTime
   gives milliseconds, <<ms>>, or <<>> for NaN.  The floating-point sums and
   remainders of the code are exact on the values in range (their error is
   far below the half millisecond that Math.round and toFixed decide on), so
   they are computed on integers. *)

Digits == <<"0", "1", "2", "3", "4", "5", "6", "7", "8", "9">>
IsDigit(c) == c \in Range(Digits)
DigitValue(c) == CHOOSE d \in 0..9 : Digits[d + 1] = c

Number(t) == [finite |-> TRUE, ticks |-> t]
NotFinite == [finite |-> FALSE, ticks |-> 0]
NaN == <<>>

\* String(n) of a whole number n >= 0
RECURSIVE NumberString(_)
NumberString(n) ==
  IF n < 10 THEN <<Digits[n + 1]>>
  ELSE NumberString(n \div 10) \o <<Digits[(n % 10) + 1]>>

\* A pad that does not cut: the digits of num, at least size of them
padUncut(num, size) ==
  LET str == NumberString(num)
  IN  IF Len(str) >= size THEN str
      ELSE SubSeq(<<"0", "0", "0">>, 1, size - Len(str)) \o str

\* pad: ('000' + num).slice(size * -1)
pad(num, size) ==
  LET str == <<"0", "0", "0">> \o NumberString(num)
  IN  SubSeq(str, Len(str) - size + 1, Len(str))

ZeroTimecode == <<"0", "0", ":", "0", "0", ":", "0", "0", ",", "0", "0", "0">>

formatTime(seconds) ==
  IF ~seconds.finite \/ seconds.ticks < 0 THEN ZeroTimecode
  ELSE LET time == ToFixed3(seconds.ticks) \div TicksPerMs
           hours == time \div 3600000
           minutes == (time \div 60000) % 60
           secs == (time % 60000) \div 1000
           ms == time % 1000
       IN  pad(hours, 2) \o <<":">> \o pad(minutes, 2) \o <<":">>
           \o pad(secs, 2) \o <<",">> \o pad(ms, 3)

\* The least element of a non-empty set of positions
First(I) == CHOOSE i \in I : \A k \in I : i <= k

\* String.prototype.replace(',', '.'): the first comma only
ReplaceComma(str) ==
  LET I == {i \in 1..Len(str) : str[i] = ","}
  IN  IF I = {} THEN str ELSE [str EXCEPT ![First(I)] = "."]

RECURSIVE TrimLeft(_)
TrimLeft(str) ==
  IF str # <<>> /\ Head(str) = " " THEN TrimLeft(Tail(str)) ELSE str

RECURSIVE TrimRight(_)
TrimRight(str) ==
  IF str # <<>> /\ str[Len(str)] = " "
  THEN TrimRight(SubSeq(str, 1, Len(str) - 1)) ELSE str

Trim(str) == TrimRight(TrimLeft(str))

\* String.prototype.split(':')
RECURSIVE Split(_)
Split(str) ==
  LET I == {i \in 1..Len(str) : str[i] = ":"}
  IN  IF I = {} THEN <<str>>
      ELSE <<SubSeq(str, 1, First(I) - 1)>>
           \o Split(SubSeq(str, First(I) + 1, Len(str)))

\* The longest prefix of str made of digits
RECURSIVE DigitPrefix(_)
DigitPrefix(str) ==
  IF str # <<>> /\ IsDigit(Head(str))
  THEN <<Head(str)>> \o DigitPrefix(Tail(str)) ELSE <<>>

RECURSIVE DigitsValue(_)
DigitsValue(ds) ==
  IF ds = <<>> THEN 0
  ELSE 10 * DigitsValue(SubSeq(ds, 1, Len(ds) - 1)) + DigitValue(ds[Len(ds)])

Signed(str) == str # <<>> /\ Head(str) \in {"-", "+"}
Unsigned(str) == IF Signed(str) THEN Tail(str) ELSE str
Sign(str) == IF str # <<>> /\ Head(str) = "-" THEN -1 ELSE 1

\* parseInt(str, 10): leading white space, a sign, then the digits up to the
\* first character that is none; NaN when there is no digit
parseInt(str) ==
  LET t == TrimLeft(str)
      ds == DigitPrefix(Unsigned(t))
  IN  IF ds = <<>> THEN NaN ELSE <<Sign(t) * DigitsValue(ds)>>

\* parseFloat(str), in milliseconds: leading white space, a sign, digits, a
\* period and digits, up to the first character that fits none of it; NaN
\* when there is no digit.  (Of the fraction, three digits are kept; exponents
\* and the word Infinity are not among the characters of the model.)
parseFloat(str) ==
  LET t == TrimLeft(str)
      u == Unsigned(t)
      int == DigitPrefix(u)
      rest == SubSeq(u, Len(int) + 1, Len(u))
      frac == IF rest # <<>> /\ Head(rest) = "." THEN DigitPrefix(Tail(rest))
              ELSE <<>>
  IN  IF int = <<>> /\ frac = <<>> THEN NaN
      ELSE <<Sign(t) * (1000 * DigitsValue(int)
                        + DigitsValue(SubSeq(frac \o <<"0", "0", "0">>, 1, 3)))>>

\* a * k + b with NaN for a NaN operand
Plus(a, k, b) == IF a = NaN \/ b = NaN THEN NaN ELSE <<a[1] * k + b[1]>>

\* parseTime, in milliseconds
parseTime(timeString) ==
  IF timeString = <<>> THEN 0
  ELSE LET parts == Split(Trim(ReplaceComma(timeString)))
           seconds ==
             IF Len(parts) = 3
             THEN Plus(parseInt(parts[1]), 3600000,
                       Plus(parseInt(parts[2]), 60000, parseFloat(parts[3])))
             ELSE IF Len(parts) = 2
                  THEN Plus(parseInt(parts[1]), 60000, parseFloat(parts[2]))
                  ELSE IF Len(parts) = 1 THEN parseFloat(parts[1]) ELSE <<0>>
       IN  IF seconds = NaN THEN 0 ELSE seconds[1]

-----------------------------------------------------------------------------
(* TimeInput of SubtitleEditor: the field shows formatTime(seconds), the
   user may type a text into it, and on blur the text is parsed, handed to
   the document and shown again formatted.  pc is the field: its seconds
   prop, its value, the text the user is going to type (plan, <<>> for
   none), and a record of the call of handleBlur. *)

HourMs == 3600000

\* Numbers of seconds a time field is given: around the carries of the
\* minute and the hour, up to the last millisecond before 100 hours and the
\* thirds of a millisecond next to each, beyond 100 hours, negative, not finite
FormatInputs ==
  {Number(Ms(HourMs * h + 60000 * m + 1000 * sec + ms) + r) :
     h \in {0, 1, 99}, m \in {0, 59}, sec \in {0, 59}, ms \in {0, 1, 999},
     r \in {0, 1, 2}}
  \cup {Number(-1), NotFinite, Number(Ms(HourMs * 100)), Number(Ms(HourMs * 123 + 5))}

\* Texts a user types: every string of up to MaxText of these characters
\* ("x" for any character that is no part of a timecode) and some longer ones
TextChars == {"1", ":", ",", ".", " ", "x"}
TypedSamples ==
  {<<"0", "1", ":", "0", "2", ":", "0", "3", ",", "4", "5", "6">>,
   <<"1", ":", "0", "2", ".", "5">>,
   <<" ", "1", ":", "0", "2", ".", "5", " ">>,
   <<"g", "a", "r", "b", "a", "g", "e">>,
   <<"1", "2", "a", "b", "c">>,
   <<"-", "5">>}
TypedTexts == UNION {[1..k -> TextChars] : k \in 0..MaxText} \cup TypedSamples

NoBlur == [seconds |-> Number(0), value |-> <<>>, newSeconds |-> 0]

TimeInputs0 ==
  {[stage |-> "prop", seconds |-> x, value |-> <<>>, plan |-> <<>>, blur |-> NoBlur] :
     x \in FormatInputs}
  \cup {[stage |-> "prop", seconds |-> Number(0), value |-> <<>>, plan |-> <<t>>,
         blur |-> NoBlur] : t \in TypedTexts}

InitCodec == Restored /\ Stopped /\ pc \in TimeInputs0

\* useState(formatTime(seconds))
TimeInput_render ==
  /\ pc.stage = "prop"
  /\ pc' = [pc EXCEPT !.stage = "shown", !.value = formatTime(pc.seconds)]

\* <input onChange>: setValue(e.target.value)
TimeInput_onChange ==
  /\ pc.stage = "shown" /\ pc.plan # <<>>
  /\ pc' = [pc EXCEPT !.stage = "typed", !.value = pc.plan[1]]

\* handleBlur: parse the value, hand a changed time to the document (which
\* gives it back as the seconds prop), show the parsed time formatted
TimeInput_handleBlur ==
  /\ pc.stage \in {"shown", "typed"}
  /\ LET newSeconds == parseTime(pc.value)
     IN  pc' = [pc EXCEPT !.stage = "blurred",
                          !.seconds = Number(Ms(newSeconds)),
                          !.value = formatTime(Number(Ms(newSeconds))),
                          !.blur = [seconds |-> pc.seconds, value |-> pc.value,
                                    newSeconds |-> newSeconds]]

CodecStep(A) ==
  /\ A
  /\ UNCHANGED <<rev, role, currentUser, mediaFile, subtitles, history,
                 historyIndex, status, pending, loads, saveQueue, saved>>
  /\ Playback

NextCodec ==
  \/ CodecStep(TimeInput_render)
  \/ CodecStep(TimeInput_onChange)
  \/ CodecStep(TimeInput_handleBlur)

SpecCodec == InitCodec /\ [][NextCodec]_vars

\* C17: for every finite x >= 0 below 100 hours, parse(format(x)) is x rounded
\* to the nearest millisecond.
C17_RoundTrip ==
  pc.stage = "blurred" /\ pc.plan = <<>>
  /\ pc.blur.seconds.finite /\ pc.blur.seconds.ticks >= 0
  /\ pc.blur.seconds.ticks < Ms(HourMs * 100)
  => /\ pc.blur.value = formatTime(pc.blur.seconds)
     /\ NearestMs(Ms(pc.blur.newSeconds), pc.blur.seconds.ticks)

\* A string of digits, at least one
IsDigits(str) == str # <<>> /\ \A j \in 1..Len(str) : IsDigit(str[j])

\* The ways to read str as seconds: whole digits, then perhaps a period or a
\* comma and the digits of a fraction, with a digit on one side at least
SecondsForms(str) ==
  {f \in {[whole |-> SubSeq(str, 1, j), rest |-> SubSeq(str, j + 1, Len(str))] :
            j \in 0..Len(str)} :
     /\ \A k \in 1..Len(f.whole) : IsDigit(f.whole[k])
     /\ f.rest # <<>> => /\ f.rest[1] \in {".", ","}
                         /\ \A k \in 2..Len(f.rest) : IsDigit(f.rest[k])
     /\ f.whole # <<>> \/ Len(f.rest) > 1}

IsSecondsForm(str) == SecondsForms(str) # {}

\* The milliseconds of a seconds form (what is beyond the third digit of the
\* fraction left out)
SecondsFormMs(str) ==
  LET f == CHOOSE g \in SecondsForms(str) : TRUE
      fraction == IF f.rest = <<>> THEN <<>> ELSE Tail(f.rest)
  IN  1000 * DigitsValue(f.whole)
      + DigitsValue(SubSeq(fraction \o <<"0", "0", "0">>, 1, 3))

\* The fields of a string between its colons, white space around it ignored
Fields(str) == Split(Trim(str))

\* H:M:S, M:S or bare seconds
IsTimecodeForm(str) ==
  /\ Len(Fields(str)) \in 1..3
  /\ \A j \in 1..(Len(Fields(str)) - 1) : IsDigits(Fields(str)[j])
  /\ IsSecondsForm(Fields(str)[Len(Fields(str))])

\* The milliseconds a timecode form stands for
TimecodeFormMs(str) ==
  LET f == Fields(str)
      n == Len(f)
  IN  SecondsFormMs(f[n])
      + (IF n >= 2 THEN 60000 * DigitsValue(f[n - 1]) ELSE 0)
      + (IF n = 3 THEN HourMs * DigitsValue(f[1]) ELSE 0)

\* C18: parse never raises; for an H:M:S, M:S or bare-seconds string (comma or
\* period before the fraction, white space around it ignored) it returns the
\* seconds ("01:02:03,456" -> 3723.456, "1:02.5" -> 62.5); for every other
\* input it returns 0 ("garbage" -> 0).
C18_ParseFormsElseZero ==
  pc.stage = "blurred"
  => /\ pc.blur.value = <<"0", "1", ":", "0", "2", ":", "0", "3", ",", "4", "5", "6">>
        => pc.blur.newSeconds = 3723456
     /\ pc.blur.value = <<"1", ":", "0", "2", ".", "5">> => pc.blur.newSeconds = 62500
     /\ pc.blur.value = <<"g", "a", "r", "b", "a", "g", "e">> => pc.blur.newSeconds = 0
     /\ IsTimecodeForm(pc.blur.value)
        => pc.blur.newSeconds = TimecodeFormMs(pc.blur.value)
     /\ ~IsTimecodeForm(pc.blur.value) => pc.blur.newSeconds = 0

\* HH:MM:SS,mmm
IsTimecode(str) ==
  /\ Len(str) = 12
  /\ \A j \in {1, 2, 4, 5, 7, 8, 10, 11, 12} : IsDigit(str[j])
  /\ str[3] = ":" /\ str[6] = ":" /\ str[9] = ","

\* C19: format is total: for a negative or non-finite input it returns the
\* zero timecode 00:00:00,000, and for every input its result has exactly two
\* digits each for hours, minutes and seconds and three for milliseconds.
C19_FormatTotal ==
  pc.stage \in {"shown", "blurred"}
  => /\ IsTimecode(pc.value)
     /\ ~pc.seconds.finite \/ pc.seconds.ticks < 0
        => pc.value = <<"0", "0", ":", "0", "0", ":", "0", "0", ",", "0", "0", "0">>

\* A field given NaN or a negative number shows the zero timecode, and a
\* field given more than 100 hours shows two digits of hours
C19_Witness ==
  /\ pc.stage = "shown"
  /\ \/ ~pc.seconds.finite
     \/ pc.seconds.ticks < 0
     \/ pc.seconds.ticks >= Ms(HourMs * 100)
  /\ IsTimecode(pc.value)

-----------------------------------------------------------------------------
(* Export of the document of a restored project.  pc is the file handed to
   downloadFile: its format and its content, for srt the sequence of blocks
   that generateSRT joins with new lines. *)

\* The events of a document in any order, with equal start times among them
ExportTexts == <<"a", "b", "c", "d", "e">>
ExportStarts == {Ms(1000), Ms(3000), Ms(5000)}
ExportDocs ==
  UNION {{[j \in 1..n |-> Subtitle(ids[j], starts[j], starts[j] + Ms(500),
                                   ExportTexts[ids[j]], NoText)] :
            ids \in {f \in [1..n -> 1..n] : \A a, b \in 1..n : f[a] = f[b] => a = b},
            starts \in [1..n -> ExportStarts]} : n \in 0..MaxBlocks}

NoFile == [format |-> "none", content |-> <<>>]

InitExport ==
  /\ rev \in Revs
  /\ role = [u \in Users |-> "user"]
  /\ currentUser = "u1"
  /\ mediaFile = FALSE
  /\ subtitles \in ExportDocs
  /\ history = <<subtitles>>
  /\ historyIndex = 0
  /\ status = "IDLE"
  /\ pending = {}
  /\ loads = [u \in Users |-> 0]
  /\ saveQueue = <<>>
  /\ saved = [u \in Users |-> <<subtitles>>]
  /\ Stopped
  /\ pc = NoFile

\* (a, b) => a.startTime - b.startTime
compare(a, b) == a.startTime - b.startTime

\* sub put before every event of sorted that compares equal to it or greater
InsertAhead(sorted, sub) ==
  LET p == Cardinality({j \in 1..Len(sorted) : compare(sorted[j], sub) < 0})
  IN  SubSeq(sorted, 1, p) \o <<sub>> \o SubSeq(sorted, p + 1, Len(sorted))

\* sub put behind every event of sorted that compares equal to it or less
Insert(sorted, sub) ==
  LET p == Cardinality({j \in 1..Len(sorted) : compare(sorted[j], sub) <= 0})
  IN  SubSeq(sorted, 1, p) \o <<sub>> \o SubSeq(sorted, p + 1, Len(sorted))

\* [...subtitles].sort(compare): Array.prototype.sort is stable
RECURSIVE Sort(_)
Sort(subs) ==
  IF subs = <<>> THEN <<>>
  ELSE Insert(Sort(SubSeq(subs, 1, Len(subs) - 1)), subs[Len(subs)])

\* generateSRT: the blocks `${index + 1}\n${start} --> ${end}\n${text}\n`
generateSRT(subs) ==
  LET sorted == Sort(subs)
  IN  [index \in 1..Len(sorted) |->
         [index |-> index,
          start |-> formatTime(Number(sorted[index].startTime)),
          end |-> formatTime(Number(sorted[index].endTime)),
          text |-> sorted[index].text]]

FileOf(format) ==
  [format |-> format,
   content |-> IF format = "srt" THEN generateSRT(subtitles) ELSE subtitles]

\* r1 handleExport: nothing is exported of an empty document
R1_handleExport(format) ==
  /\ Workspace("r1")
  /\ Len(subtitles) # 0
  /\ pc' = FileOf(format)

R2_handleExport(format) ==
  /\ Workspace("r2")
  /\ pc' = FileOf(format)

ExportStep(A) ==
  /\ A
  /\ UNCHANGED <<rev, role, currentUser, mediaFile, subtitles, history,
                 historyIndex, status, pending, loads, saveQueue, saved>>
  /\ Playback

NextExport ==
  \/ \E format \in {"srt", "json"} : ExportStep(R1_handleExport(format))
  \/ \E format \in {"srt", "json"} : ExportStep(R2_handleExport(format))

SpecExport == InitExport /\ [][NextExport]_vars

\* The place in the output of the event at position j of the document: behind
\* the events that start earlier and those before it that start at the same time
BlockOf(j) ==
  1 + Cardinality({k \in 1..Len(subtitles) :
                     \/ subtitles[k].startTime < subtitles[j].startTime
                     \/ /\ subtitles[k].startTime = subtitles[j].startTime
                        /\ k < j})

\* C16: export emits one block per event, ordered ascending by startTime with
\* events of equal startTime kept in their document order, and numbers the
\* blocks 1, 2, ..., n in output order, whatever the input order and the
\* identifiers (start times [5, 1, 3] give blocks 1, 2, 3 for times 1, 3, 5).
C16_ExportSortedStableNumbered ==
  pc.format = "srt"
  => /\ Len(pc.content) = Len(subtitles)
     /\ \A k \in 1..Len(pc.content) : pc.content[k].index = k
     /\ \A j \in 1..Len(subtitles) :
          /\ pc.content[BlockOf(j)].text = subtitles[j].text
          /\ pc.content[BlockOf(j)].start = formatTime(Number(subtitles[j].startTime))
          /\ pc.content[BlockOf(j)].end = formatTime(Number(subtitles[j].endTime))
     /\ [j \in 1..Len(subtitles) |-> subtitles[j].startTime]
          = <<Ms(5000), Ms(1000), Ms(3000)>>
        => [k \in 1..3 |-> pc.content[k].start]
             = << <<"0", "0", ":", "0", "0", ":", "0", "1", ",", "0", "0", "0">>,
                  <<"0", "0", ":", "0", "0", ":", "0", "3", ",", "0", "0", "0">>,
                  <<"0", "0", ":", "0", "0", ":", "0", "5", ",", "0", "0", "0">> >>

\* An exported document of three events out of order, two of them starting at
\* the same time, the later of the two with the smaller identifier
C16_Witness ==
  /\ pc.format = "srt"
  /\ Len(subtitles) = 3 /\ Len(pc.content) = 3
  /\ subtitles[1].startTime > subtitles[2].startTime
  /\ subtitles[2].startTime = subtitles[3].startTime
  /\ subtitles[2].id > subtitles[3].id
  /\ pc.content[1].text = subtitles[2].text
  /\ pc.content[2].text = subtitles[3].text

-----------------------------------------------------------------------------
(* Playback with the handler of each step on record: pc is the name of the
   handler that ran last ("mount" before the first).  A tick of the player
   that VideoPlayer does not forward and a tick that finds the clock where it
   already is are steps too. *)

InitSeek ==
  /\ rev \in Revs
  /\ role = [u \in Users |-> "user"]
  /\ currentUser = "u1"
  /\ mediaFile = TRUE
  /\ subtitles \in PlayerDocs
  /\ history = <<subtitles>>
  /\ historyIndex = 0
  /\ status = "IDLE"
  /\ pending = {}
  /\ loads = [u \in Users |-> 0]
  /\ saveQueue = <<>>
  /\ saved = [u \in Users |-> <<subtitles>>]
  /\ Stopped
  /\ pc = "mount"

SeekStep(handler, A) ==
  /\ A
  /\ pc' = handler
  /\ Len(video'.events) <= MaxEvents
  /\ UNCHANGED <<rev, role, currentUser, mediaFile, subtitles, history,
                 historyIndex, status, pending, loads, saveQueue, saved>>

NextSeek ==
  \/ SeekStep("play", VideoPlays)
  \/ SeekStep("onTimeUpdate", onTimeUpdate)
  \/ SeekStep("onSeeking", onSeeking)
  \/ SeekStep("onSeeked", onSeeked)
  \/ \E t \in ClockTimes : SeekStep("onSeek", Timeline_onSeek(t))
  \/ \E id \in Ids(subtitles) : SeekStep("onSeek", Editor_onSeek(id))
  \/ SeekStep("onSeek", R2_ArrowLeft)
  \/ SeekStep("onSeek", R2_ArrowRight)

SpecSeek == InitSeek /\ [][NextSeek]_vars

\* C21: between the seek-start and the seek-completion notification of the
\* player the seeking flag is set; while it is set no tick of the player is
\* forwarded to the clock of the application; the flag is cleared by the
\* seek-completion notification only, and after it ticks are forwarded again.
C21_SeekingFlagGatesTicks ==
  [][/\ pc' = "onSeeking" => isSeekingRef'
     /\ isSeekingRef /\ pc' # "onSeeked" => isSeekingRef'
     /\ pc' = "onSeeked" => ~isSeekingRef'
     /\ ~isSeekingRef /\ isSeekingRef' => pc' = "onSeeking"
     /\ isSeekingRef /\ pc' = "onTimeUpdate" => currentTime' = currentTime
     /\ ~isSeekingRef /\ pc' = "onTimeUpdate" => currentTime' = video.currentTime]_vars

\* A tick has come in the middle of a seek, the player having played on past
\* the clock, and the clock has stayed where it was
C21_Witness ==
  /\ pc = "onTimeUpdate"
  /\ isSeekingRef /\ video.events # <<>> /\ Head(video.events) = "seeked"
  /\ video.currentTime # currentTime

\* r1: const [activeSubtitleId, setActiveSubtitleId] = useState(null), and
\* setActiveSubtitleId is called nowhere
R1_activeSubtitleId == Null

\* r2: the identifier is derived in every render
R2_activeSubtitleId == activeAt(subtitles, currentTime)

\* <SubtitleEditor activeSubtitleId={activeSubtitleId}>
Editor_activeSubtitleId ==
  IF rev = "r1" THEN R1_activeSubtitleId ELSE R2_activeSubtitleId

\* A step that sets the clock: a forwarded tick or a seek of the user
ClockUpdate == pc' = "onSeek" \/ (pc' = "onTimeUpdate" /\ ~isSeekingRef)

\* C27: after every clock update the active-caption identifier handed to the
\* editor is the identifier of activeAt(currentTime), null when no event
\* contains the current time, and it changes only at updates at which
\* activeAt(currentTime) changes.
C27_EditorGetsActiveId ==
  [][/\ ClockUpdate
        => Editor_activeSubtitleId' = activeAt(subtitles', currentTime')
     /\ Editor_activeSubtitleId' # Editor_activeSubtitleId
        => /\ ClockUpdate
           /\ activeAt(subtitles', currentTime') # activeAt(subtitles, currentTime)]_vars

-----------------------------------------------------------------------------
(* Updates and deletes that name any identifier, one of the document or not,
   on a restored project of two events.  An editor row can call its handler
   after the event has left the document (a delete, an undo), so the
   identifier need not be there.  pc is the call made last: the handler, the
   identifier, and whether the document held it. *)

MissingHist == MaxHist + 1

\* The identifiers of the stored events and one that no document holds
AnyIds == Ids(StoredPair) \cup {0}

InitMissing == RestoredPair /\ Stopped /\ pc = [handler |-> "mount", id |-> 0, held |-> FALSE]

MissingStep(handler, id, A) ==
  /\ saveQueue = <<>>
  /\ A
  /\ pc' = [handler |-> handler, id |-> id, held |-> id \in Ids(subtitles)]
  /\ Len(history') <= MissingHist
  /\ Playback

NextMissing ==
  \/ \E id \in AnyIds, t \in EditTexts : MissingStep("update", id, R1_onUpdateSubtitle(id, t))
  \/ \E id \in AnyIds : MissingStep("delete", id, R1_onDeleteSubtitle(id))
  \/ MissingStep("undo", 0, R1_undo)
  \/ MissingStep("redo", 0, R1_redo)
  \/ \E id \in AnyIds, t \in EditTexts : MissingStep("update", id, R2_onUpdateSubtitle(id, t))
  \/ \E id \in AnyIds : MissingStep("delete", id, R2_onDeleteSubtitle(id))
  \/ MissingStep("undo", 0, R2_handleUndo)
  \/ MissingStep("redo", 0, R2_handleRedo)
  \/ SaveLanded /\ UNCHANGED pc /\ Playback

SpecMissing == InitMissing /\ [][NextMissing]_vars

\* C22: an update or a delete that names an identifier the document does not
\* hold leaves every event of the document as it was and raises no error; a
\* delete(id) made twice gives the document that one delete(id) gives.
\* (A handler runs in a step that starts with no save waiting.)
C22_MissingIdIsNoOp ==
  [][/\ pc'.handler \in {"update", "delete"} /\ saveQueue = <<>> /\ ~pc'.held
        => subtitles' = subtitles /\ ~Crashed'
     /\ pc'.handler = "delete" /\ saveQueue = <<>>
        => /\ pc'.id \notin Ids(subtitles')
           /\ \A j \in 1..Len(subtitles') : subtitles'[j] \in Range(subtitles)
           /\ Len(subtitles') = Len(subtitles) - (IF pc'.held THEN 1 ELSE 0)]_vars

\* The first event has been deleted, and then deleted again: the second
\* event is still the document
C22_Witness ==
  /\ pc = [handler |-> "delete", id |-> 1, held |-> FALSE]
  /\ Len(subtitles) = 1 /\ subtitles[1].id = 2

-----------------------------------------------------------------------------
(* The document of a user with a stored project of two events, from the
   login on: the load, uploads, generations of up to two events, text and
   time edits, deletes, offsets, translations, undo and redo. *)

DocSizes == {0, 1, 2}

InitDoc ==
  /\ rev \in Revs
  /\ role = [u \in Users |-> "user"]
  /\ currentUser = "u1"
  /\ mediaFile = FALSE
  /\ subtitles = <<>>
  /\ history = <<>>
  /\ historyIndex = -1
  /\ status = "IDLE"
  /\ pending = {}
  /\ loads = [u \in Users |-> 1]
  /\ saveQueue = <<>>
  /\ saved = [u \in Users |-> <<StoredPair>>]
  /\ Stopped
  /\ pc = 0

DocStep(A) ==
  /\ ~Crashed /\ saveQueue = <<>>
  /\ A
  /\ Len(history') <= MaxHist /\ InFlight' <= MaxInFlight
  /\ UNCHANGED pc /\ Playback

NextDoc ==
  \/ \E u \in Users : DocStep(LoadLanded(u))
  \/ DocStep(R1_handleFileUpload)
  \/ DocStep(R1_handleGenerate)
  \/ \E r \in pending, n \in DocSizes : DocStep(R1_generateResolved(r, n))
  \/ DocStep(R1_handleTranslate)
  \/ \E r \in pending : DocStep(R1_translateResolved(r, Named(Ids(r.subtitles))))
  \/ DocStep(R1_handleSync(-SyncStepR1))
  \/ \E id \in Ids(subtitles), t \in EditTexts : DocStep(R1_onUpdateSubtitle(id, t))
  \/ \E id \in Ids(subtitles), f \in TimeFields, v \in TimeInputs : DocStep(R1_handleBlur(id, f, v))
  \/ \E r \in pending : DocStep(R1_commitTimer(r))
  \/ \E id \in Ids(subtitles) : DocStep(R1_onDeleteSubtitle(id))
  \/ DocStep(R1_undo)
  \/ DocStep(R1_redo)
  \/ DocStep(R2_handleFileUpload)
  \/ DocStep(R2_handleResetProject)
  \/ DocStep(R2_handleGenerate)
  \/ \E r \in pending, n \in DocSizes : DocStep(R2_generateResolved(r, n))
  \/ DocStep(R2_handleTranslate)
  \/ \E r \in pending : DocStep(R2_translateResolved(r, Named(Ids(r.subtitles))))
  \/ DocStep(R2_handleSyncOffset(-SyncStepSmallR2))
  \/ \E id \in Ids(subtitles), t \in EditTexts : DocStep(R2_onUpdateSubtitle(id, t))
  \/ \E id \in Ids(subtitles), f \in TimeFields, v \in TimeInputs : DocStep(R2_handleBlur(id, f, v))
  \/ \E r \in pending : DocStep(R2_commitTimer(r))
  \/ \E id \in Ids(subtitles) : DocStep(R2_onDeleteSubtitle(id))
  \/ DocStep(R2_handleUndo)
  \/ DocStep(R2_handleRedo)
  \/ SaveLanded /\ UNCHANGED pc /\ Playback

SpecDoc == InitDoc /\ [][NextDoc]_vars

\* C23: in every reachable state the identifiers of the events of the
\* document are pairwise distinct.
C23_IdsDistinct ==
  \A j, k \in 1..Len(subtitles) : subtitles[j].id = subtitles[k].id => j = k

\* A generated document of two events has been translated
C23_Witness ==
  /\ Len(subtitles) = 2
  /\ subtitles[1].id > 10 /\ subtitles[2].id > 10
  /\ subtitles[1].id # subtitles[2].id
  /\ subtitles[1].text = "t" /\ subtitles[2].text = "t"

\* C24: in every reachable document each event has startTime >= 0 and
\* endTime > startTime.
C24_TimesOrdered ==
  ~Crashed
  => \A j \in 1..Len(subtitles) :
       subtitles[j].startTime >= 0 /\ subtitles[j].endTime > subtitles[j].startTime

-----------------------------------------------------------------------------
(* Audio preprocessing: src/utils.ts processMediaForGemini and encodeWAV.
   A decoded source is a sequence of channels of equally many samples; a
   sample is a whole number of halves (2 is the sample 1.0).  A buffer is the
   sequence of its bytes.  pc is the call of processMediaForGemini: its
   stage, the decoded source, the samples taken and the buffer encoded. *)

SampleValues == {-3, -1, 0, 1, 3}

\* What decodeAudioData can give: one or two channels of up to MaxSamples samples
Sources ==
  UNION {[1..c -> [1..n -> SampleValues]] : c \in {1, 2}, n \in 0..MaxSamples}

\* DataView.setUint8 / setUint16 / setUint32 (little endian): the bytes written
Uint16LE(n) == <<n % 256, (n \div 256) % 256>>
Uint32LE(n) ==
  <<n % 256, (n \div 256) % 256, (n \div 65536) % 256, (n \div 16777216) % 256>>

\* DataView.setInt16 (little endian) of a whole number
Int16LE(v) == Uint16LE(v % 65536)

\* Math.max(-1, Math.min(1, sample)), then s < 0 ? s * 0x8000 : s * 0x7FFF,
\* the fraction dropped by setInt16
SampleInt16(h) ==
  LET s == Max(-2, Min(2, h))
  IN  IF s < 0 THEN s * 16384 ELSE (s * 32767) \div 2

RECURSIVE SampleBytes(_)
SampleBytes(samples) ==
  IF samples = <<>> THEN <<>>
  ELSE Int16LE(SampleInt16(Head(samples))) \o SampleBytes(Tail(samples))

\* The header of encodeWAV with the channel count at offset 22 set to channels
WavHeader(samples, sampleRate, channels) ==
  <<82, 73, 70, 70>> \o Uint32LE(36 + Len(samples) * 2)
  \o <<87, 65, 86, 69>> \o <<102, 109, 116, 32>>
  \o Uint32LE(16) \o Uint16LE(1) \o Uint16LE(channels)
  \o Uint32LE(sampleRate) \o Uint32LE(sampleRate * 2)
  \o Uint16LE(2) \o Uint16LE(16)
  \o <<100, 97, 116, 97>> \o Uint32LE(Len(samples) * 2)

\* An encoder that declares two channels
encodeWAVStereo(samples, sampleRate) ==
  WavHeader(samples, sampleRate, 2) \o SampleBytes(samples)

encodeWAV(samples, sampleRate) ==
  WavHeader(samples, sampleRate, 1) \o SampleBytes(samples)

InitAudio ==
  /\ Restored /\ Stopped
  /\ pc \in {[stage |-> "file", source |-> src, pcmData |-> <<>>, wavBuffer |-> <<>>] :
               src \in Sources}

\* audioBuffer.getChannelData(0)
Audio_getChannelData ==
  /\ pc.stage = "file"
  /\ pc' = [pc EXCEPT !.stage = "decoded", !.pcmData = pc.source[1]]

\* encodeWAV(pcmData, 16000)
Audio_encodeWAV ==
  /\ pc.stage = "decoded"
  /\ pc' = [pc EXCEPT !.stage = "encoded",
                      !.wavBuffer = encodeWAV(pc.pcmData, SampleRate)]

AudioStep(A) ==
  /\ A
  /\ UNCHANGED <<rev, role, currentUser, mediaFile, subtitles, history,
                 historyIndex, status, pending, loads, saveQueue, saved>>
  /\ Playback

NextAudio ==
  \/ AudioStep(Audio_getChannelData)
  \/ AudioStep(Audio_encodeWAV)

SpecAudio == InitAudio /\ [][NextAudio]_vars

\* The unsigned little-endian number of size bytes at offset of a buffer
RECURSIVE ReadLE(_, _, _)
ReadLE(buffer, offset, size) ==
  IF size = 0 THEN 0
  ELSE buffer[offset + 1] + 256 * ReadLE(buffer, offset + 1, size - 1)

\* C25: for every input of N samples the encoded buffer is exactly 44 + 2N
\* bytes long and its header declares channel count 1, sample rate 16000 and
\* 16 bits per sample, data size 2N and overall size 36 + 2N, whatever the
\* channel count of the source.
C25_WavLengthAndHeader ==
  pc.stage = "encoded"
  => LET N == Len(pc.source[1])
     IN  /\ Len(pc.wavBuffer) = 44 + 2 * N
         /\ \A j \in 1..Len(pc.wavBuffer) : pc.wavBuffer[j] \in 0..255
         /\ ReadLE(pc.wavBuffer, 22, 2) = 1
         /\ ReadLE(pc.wavBuffer, 24, 4) = 16000
         /\ ReadLE(pc.wavBuffer, 34, 2) = 16
         /\ ReadLE(pc.wavBuffer, 40, 4) = 2 * N
         /\ ReadLE(pc.wavBuffer, 4, 4) = 36 + 2 * N

\* A source of two channels of two samples each has been encoded
C25_Witness ==
  /\ pc.stage = "encoded"
  /\ Len(pc.source) = 2 /\ Len(pc.source[1]) = 2
  /\ pc.source[1] # pc.source[2]
  /\ Len(pc.wavBuffer) = 48

-----------------------------------------------------------------------------
(* Manual edits of a time on a restored project of two events, one at a
   time: the blur of the field, then the commit it has scheduled.  pc is the
   edit made last (event, field, parsed time) and whether its commit has
   fired. *)

TimerHist == MaxHist + 1

\* Times typed into a field: inside the first event, and after both
TypedTimes == {Ms(20), Ms(200)}

NoEdit == [id |-> 0, field |-> "none", seconds |-> 0, fired |-> FALSE]

InitTimer == RestoredPair /\ Stopped /\ pc = NoEdit

\* The blur of a time field while no commit is waiting
BlurStep(id, f, v, A) ==
  /\ saveQueue = <<>> /\ pending = {}
  /\ A
  /\ pc' = [id |-> id, field |-> f, seconds |-> v, fired |-> FALSE]
  /\ Len(history') <= TimerHist
  /\ Playback

\* 100 ms later
TimerStep(A) ==
  /\ saveQueue = <<>>
  /\ A
  /\ pc' = [pc EXCEPT !.fired = TRUE]
  /\ Len(history') <= TimerHist
  /\ Playback

NextTimer ==
  \/ \E id \in Ids(subtitles), f \in TimeFields, v \in TypedTimes :
       BlurStep(id, f, v, R1_handleBlur(id, f, v))
  \/ \E r \in pending : TimerStep(R1_commitTimer(r))
  \/ \E id \in Ids(subtitles), f \in TimeFields, v \in TypedTimes :
       BlurStep(id, f, v, R2_handleBlur(id, f, v))
  \/ \E r \in pending : TimerStep(R2_commitTimer(r))
  \/ SaveLanded /\ UNCHANGED pc /\ Playback

SpecTimer == InitTimer /\ [][NextTimer]_vars

\* C26: when a manual edit has changed the start or the end time of an event,
\* the commit scheduled 100 ms after the blur records the edited document:
\* once it has fired, the snapshot at the current history index contains the
\* new time and the visible document still contains it.
C26_TimeEditIsCommitted ==
  pc.fired
  => /\ pc.id \in Ids(subtitles)
     /\ TimeOf(subtitles, pc.id, pc.field) = pc.seconds
     /\ historyIndex >= 0 /\ historyIndex < Len(history)
     /\ pc.id \in Ids(history[historyIndex + 1])
     /\ TimeOf(history[historyIndex + 1], pc.id, pc.field) = pc.seconds

-----------------------------------------------------------------------------
(* Results that land on a history that has moved on *)

\* The history as it stands is kept up to the current index and newSubtitles
\* is the entry right after it
LandsOnTop(newSubtitles) ==
  /\ Len(history') = historyIndex + 2
  /\ \A j \in 1..(historyIndex + 1) : j <= Len(history) /\ history'[j] = history[j]
  /\ history'[historyIndex + 2] = newSubtitles
  /\ historyIndex' = historyIndex + 1

\* C28: a generation or translation result that lands is committed on top of
\* the history as it stands when it arrives: every snapshot committed while
\* the request was in flight is still in the history, immediately before the
\* new entry.
C28_ResultLandsOnCurrentHistory ==
  [][\A r \in pending :
       /\ \A n \in GeneratedSizes :
            GenerateLands(r, n) /\ NotCurrent(GeneratedSubtitles(Now, n))
            => LandsOnTop(GeneratedSubtitles(Now, n))
       /\ \A ids \in SUBSET Ids(r.subtitles) :
            TranslateLands(r, ids) /\ NotCurrent(TranslatedSubtitles(r.subtitles, ids))
            => LandsOnTop(TranslatedSubtitles(r.subtitles, ids))]_vars

\* C29: in every reachable state the history index is -1 when the history is
\* empty and one of its positions otherwise, so that undo and redo set the
\* visible document to a snapshot that exists and never to a missing entry.
C29_IndexMatchesHistory ==
  /\ history = <<>> => historyIndex = -1
  /\ history # <<>> => historyIndex \in 0..(Len(history) - 1)
  /\ ~Crashed

-----------------------------------------------------------------------------
(* Two accounts on one page: the admin u1 is in the workspace with a project
   that is recorded and saved, logs out, and the user u2 logs in, with a
   stored project of their own or without one.  No document is generated
   here, so an event belongs to the account whose stored project it came
   from, whatever has been edited in it since. *)

SessionUsers == {"u1", "u2"}

\* The project stored for u2, if there is one
OtherStored == GeneratedSubtitles(1, 1)

Owner(id) == IF id \in Ids(StoredSubtitles) THEN "u1" ELSE "u2"

InitSession ==
  /\ rev \in Revs
  /\ role = [u \in SessionUsers |-> IF u = "u1" THEN "admin" ELSE "user"]
  /\ currentUser = "u1"
  /\ mediaFile = FALSE
  /\ subtitles = StoredSubtitles
  /\ history = <<StoredSubtitles>>
  /\ historyIndex = 0
  /\ status = "IDLE"
  /\ pending = {}
  /\ loads = [u \in SessionUsers |-> 0]
  /\ saveQueue = <<>>
  /\ saved \in {[u \in SessionUsers |-> IF u = "u1" THEN <<StoredSubtitles>> ELSE other] :
                  other \in {<<>>, <<OtherStored>>}}
  /\ Stopped
  /\ pc = 0

SessionStep(A) ==
  /\ saveQueue = <<>>
  /\ A
  /\ Len(history') <= MaxHist
  /\ loads'["u1"] + loads'["u2"] <= MaxInFlight
  /\ UNCHANGED pc /\ Playback

NextSession ==
  \/ \E u \in SessionUsers : SessionStep(R1_handleLoginSuccess(u))
  \/ SessionStep(R1_handleLogout)
  \/ \E u \in SessionUsers : SessionStep(R2_handleLoginSuccess(u))
  \/ SessionStep(R2_handleLogout)
  \/ \E u \in SessionUsers : SessionStep(LoadLanded(u))
  \/ \E id \in Ids(subtitles), t \in EditTexts : SessionStep(R1_onUpdateSubtitle(id, t))
  \/ SessionStep(R1_onCommitChanges)
  \/ SessionStep(R1_undo)
  \/ SessionStep(R1_redo)
  \/ \E id \in Ids(subtitles), t \in EditTexts : SessionStep(R2_onUpdateSubtitle(id, t))
  \/ SessionStep(R2_commitChanges)
  \/ SessionStep(R2_handleUndo)
  \/ SessionStep(R2_handleRedo)
  \/ SaveLanded /\ UNCHANGED pc /\ Playback

SpecSession == InitSession /\ [][NextSession]_vars

\* Every event of the document belongs to the account u
OwnedBy(subs, u) == \A j \in 1..Len(subs) : Owner(subs[j].id) = u

\* C30: after a logout and the login of another user, no snapshot committed
\* in the session of the previous user becomes the visible document through
\* undo or redo, and none is saved under the identifier of the new user.
C30_NoSnapshotCrossesSessions ==
  [][/\ (UndoStep \/ RedoStep) /\ subtitles' # subtitles
        => OwnedBy(subtitles', currentUser)
     /\ Len(saveQueue') > Len(saveQueue)
        => OwnedBy(saveQueue'[Len(saveQueue')].subtitles,
                   saveQueue'[Len(saveQueue')].userId)]_vars

====
